---- MODULE Spec2Model ----
(***************************************************************************)
(* A model of the Grammar Sniper browser extension (content script and its *)
(* modules config.js, api.js, grammarCheck.js, utils.js, dom.js, ui.js).   *)
(* Strings are sequences of one-character strings; JavaScript promises and *)
(* timers are modelled by splitting every async function at its awaits.    *)
(***************************************************************************)
EXTENDS Integers, Sequences, FiniteSets, TLC

VARIABLES
    \* config.js
    apiKey,             \* GEMINI_API_KEY
    apiUrl,             \* GEMINI_API_URL (the key the URL embeds)
    \* the clock, in milliseconds (Date.now())
    now,
    \* grammarCheck.js: checkGrammar and its cache
    grammarCheckCache,  \* text -> [present, errors, timestamp]
    inflight,           \* slot -> a checkGrammar call suspended at an await
    lastCall,           \* what the latest checkGrammar call did when called
    lastDone,           \* what the latest completed API round trip stored
    \* api.js and grammarCheck.js as functions of one request and its answer
    apiIn,              \* [text, key, resp]
    apiOut,             \* what each function settled with, once applied
    \* utils.js: one function wrapped by debounce(fn, delay)
    dbDelay,            \* delay
    dbNow,              \* the clock of the timers
    dbTimer,            \* timer: the id setTimeout returned last (0: undefined)
    dbPending,          \* the timeouts set and neither fired nor cleared
    dbCalls,            \* the calls of the wrapper so far: [args, at]
    dbExecs,            \* the executions of fn so far: [call, args, at, seen]
    \* config.js: loadApiKey
    ldStored,           \* googleApiKey in chrome.storage.sync ("": none)
    ldPc,               \* "start" before loadApiKey is called, then "called"
    ldRetry,            \* retryCount
    ldAttempts,         \* calls of tryLoadApiKey so far
    ldReads,            \* calls of chrome.storage.sync.get so far
    ldTasks,            \* pending timers and storage callbacks: [kind, n]
    ldPromise,          \* "pending", "true", "false" or "rejected"
    \* content script: startExtension
    stHost,             \* window.location.hostname, as its sequence of labels
    stFrame,            \* "top" or "iframe"
    stFail,             \* the statement of initialize that throws, or "none"
    stPc,               \* "load", "awaitKey", "disabled" or "done"
    stScans,            \* call sites that have called processEditableElements
    stTimers,           \* pending setTimeout(processEditableElements, 1000)
    stPage,             \* editable elements in the document
    stSetup,            \* elements with dataset.helperSetup
    \* content script: chrome.runtime.onMessage listener
    msgStorageOk,       \* FALSE: the page denies access to localStorage
    msgEnabled,         \* elements with data-grammar-check-enabled="true"
    msgPending,         \* elements whose debounced check has a timer pending
    msgReply,           \* what the last API_KEY_UPDATED message did
    \* content script: the logo of one input or textarea, and the popup
    ckText,             \* element.value
    ckPc,               \* the click handler: "idle", "key", "fetch", "sentiment"
    ckClick,            \* the click that is handled, or that was handled last
    ckPopup,            \* the suggestions popup
    \* grammarCheck.js: the checks and highlights of one element
    rcText,             \* element.value
    rcChecks,           \* suspended checks: [phase, kind, id, text, peers]
    rcStarted,          \* checks started so far
    rcDone,             \* ids of the checks that have completed
    rcShown,            \* the highlights in the element's container
    rcLast,             \* the check that completed last
    \* grammarCheck.js: detailed checking, and the GRAMMAR_SETTINGS_UPDATED message
    dtStorageOk,        \* FALSE: the page denies access to localStorage
    dtStored,           \* localStorage detailedGrammarCheckEnabled, or "none"
    dtLast,             \* the toggle of the last message: "none", "true", "false"
    dtText,             \* element -> element.value
    dtSetup,            \* elements setupInputElement has run on
    dtListeners,        \* elements with __detailedGrammarCheckListenersAdded
    dtTimer,            \* elements with a pending __detailedGrammarCheckTimer
    dtChecks,           \* suspended checkGrammarDetailed calls: [el, text, requested]
    dtShown,            \* element -> the highlights in its detailed container
    \* manifest.json and the top-level statements of the content script
    scPc,               \* "inject", "excluded", "start", "top" or "run"
    scObservers,        \* MutationObservers registered: "top", "init"
    scMutations,        \* added elements the top-level observer has yet to see
    \* grammarCheck.js and dom.js: one element whose text is replaced
    edKind,             \* "contenteditable" or "input"
    edNodes,            \* the values of its text nodes (an input: its value)
    edHighlights,       \* the highlights in its grammar-highlight container
    edLast,             \* what the last applySuggestion or replaceSentence did
    \* content script and ui.js: the overlay logos of the elements of a page
    lgText,             \* element -> its text
    lgLogo,             \* element -> the logo setupInputElement got (0: none)
    lgCount,            \* logos created so far
    lgAttached,         \* the logos in the document, in document order
    lgShownFor,         \* logo -> the element it was positioned at last
    lgLast,             \* what the last click on a logo did
    \* dom.js, replaceSentence on an input: its value, the content info of the
    \* last logo click with the value it was taken from, the last replacement
    rpValue,
    rpInfo,
    rpCaptured,
    rpLast,
    \* grammarCheck.js, the debounced check of the elements around a key
    \* update: the text of each element, the elements whose last check was
    \* skipped for lack of a key, those of them a key update found, and the
    \* text that checkGrammar was called with since that update
    rkText,
    rkSkipped,
    rkAwaiting,
    rkChecked

pageVars  == <<apiKey, apiUrl, now>>
cacheVars == <<grammarCheckCache, inflight, lastCall, lastDone>>
apiVars   == <<apiIn, apiOut>>
dbVars    == <<dbDelay, dbNow, dbTimer, dbPending, dbCalls, dbExecs>>
loadVars  == <<ldStored, ldPc, ldRetry, ldAttempts, ldReads, ldTasks, ldPromise>>
startVars == <<stHost, stFrame, stFail, stPc, stScans, stTimers, stPage, stSetup>>
msgVars   == <<msgStorageOk, msgEnabled, msgPending, msgReply>>
clickVars == <<ckText, ckPc, ckClick, ckPopup>>
raceVars  == <<rcText, rcChecks, rcStarted, rcDone, rcShown, rcLast>>
detailVars == <<dtStorageOk, dtStored, dtLast, dtText, dtSetup, dtListeners, dtTimer, dtChecks, dtShown>>
scriptVars == <<scPc, scObservers, scMutations>>
editVars  == <<edKind, edNodes, edHighlights, edLast>>
logoVars  == <<lgText, lgLogo, lgCount, lgAttached, lgShownFor, lgLast>>
replaceVars == <<rpValue, rpInfo, rpCaptured, rpLast>>
rekeyVars == <<rkText, rkSkipped, rkAwaiting, rkChecked>>
vars      == <<pageVars, cacheVars, apiVars, dbVars, loadVars, startVars, msgVars,
               clickVars, raceVars, detailVars, scriptVars, editVars, logoVars, replaceVars, rekeyVars>>

-----------------------------------------------------------------------------
(* Bounds of the model *)

MaxTicks    == 4   \* the clock advances at most this many ticks
MaxInflight == 1   \* concurrent suspended checkGrammar calls
MaxCalls    == 3   \* calls of a debounced function
MaxDbTime   == 6   \* the timer clock stops here
MaxAttempts == 6   \* tryLoadApiKey is not modelled beyond this many calls
MaxElements == 3   \* editable elements that the page can have
MaxRace     == 2   \* checks of one element that can be suspended at a time
MaxDetail   == 1   \* editable elements with detailed checking
MaxEdits    == 2   \* replacements of text in one element
MaxLogos    == 2   \* editable elements with a logo
MaxChecks   == 2   \* checks of one element that are started

(* Strings *)

None == "none"

Rep(c, n) == [i \in 1..n |-> c]

Min(a, b) == IF a < b THEN a ELSE b
Max(a, b) == IF a > b THEN a ELSE b

IsSpace(c) == c \in {" ", "\t", "\n", "\r"}

RECURSIVE TrimStart(_)
TrimStart(s) ==
    IF s # <<>> /\ IsSpace(Head(s)) THEN TrimStart(Tail(s)) ELSE s

RECURSIVE TrimEnd(_)
TrimEnd(s) ==
    IF s # <<>> /\ IsSpace(s[Len(s)]) THEN TrimEnd(SubSeq(s, 1, Len(s) - 1)) ELSE s

\* String.prototype.trim
Trim(s) == TrimEnd(TrimStart(s))

\* String.prototype.substring(a, b): both ends clamped to [0, length], swapped
\* when a > b; positions count from 0
Substring(s, a, b) ==
    LET ca == Max(0, Min(a, Len(s)))
        cb == Max(0, Min(b, Len(s)))
        lo == Min(ca, cb)
        hi == Max(ca, cb)
    IN  SubSeq(s, lo + 1, hi)

\* String.prototype.indexOf(needle): first position from 0, or -1
IndexOf(s, needle) ==
    LET hits == { p \in 0..(Len(s) - Len(needle)) :
                    SubSeq(s, p + 1, p + Len(needle)) = needle }
    IN  IF hits = {} THEN -1
        ELSE CHOOSE p \in hits : \A q \in hits : p <= q

\* Sample texts of an editable element
TShort  == <<"H", "i", " ", "y", "o", "u">>
TPadded == <<" ", " ">> \o Rep("x", 9) \o <<" ", " ">>
TLongA  == <<"T", "h", "e", "y", " ", "w", "a", "s", " ", "o", "k">>
TLongB  == <<"H", "e", " ", "g", "o", " ", "h", "o", "m", "e", " ", "n", "o", "w">>

Texts == {TShort, TPadded, TLongA, TLongB}

\* text.trim().length < 10 (grammarCheck.js:105, content.js:439)
TooShort(text) == Len(Trim(text)) < 10

-----------------------------------------------------------------------------
(* api.js: the HTTP exchange with the generative-language endpoint.        *)
(* A response is [net, ok, body, candidates]: fetch rejects (network error *)
(* or AbortSignal timeout) when net # "ok"; ok is response.ok; body "bad"  *)
(* makes response.json() throw; hasCandidates tells whether                *)
(* data.candidates exists and candidates is the sequence of the texts      *)
(* candidates[i].content.parts[0].text.  A text is                         *)
(* [kind, lines, value]: its lines (for the numbered list and the          *)
(* sentiment answer) and what /\{[\s\S]*\}/ plus JSON.parse make of it:    *)
(* kind "prose" (no braces), "badjson" (JSON.parse throws), "json"         *)
(* (value is the parsed object: wwmKind tells whether words_with_mistakes  *)
(* is missing, not a list, or the list wwm).                               *)

Undef == [k |-> "undef", s |-> <<>>]
Str(s) == [k |-> "str", s |-> s]

Mistake(text, suggestion, start, end) ==
    [text |-> text, suggestion |-> suggestion, mistake_type |-> "grammar",
     start_index |-> start, end_index |-> end]

Parsed(wwmKind, wwm) == [wwmKind |-> wwmKind, wwm |-> wwm]

Prose(lines)  == [kind |-> "prose", lines |-> lines, value |-> Parsed("missing", <<>>)]
BadJson       == [kind |-> "badjson", lines |-> <<>>, value |-> Parsed("missing", <<>>)]
Json(value)   == [kind |-> "json", lines |-> <<>>, value |-> value]

Http(net, ok, body, hasCandidates, candidates) ==
    [net |-> net, ok |-> ok, body |-> body, hasCandidates |-> hasCandidates,
     candidates |-> candidates]

Answer(text) == Http("ok", TRUE, "json", TRUE, <<text>>)

\* the ways a request fails before any answer text is read
NetError     == Http("error", FALSE, "bad", FALSE, <<>>)
HttpError    == Http("ok", FALSE, "bad", FALSE, <<>>)
BodyError    == Http("ok", TRUE, "bad", FALSE, <<>>)
NoCandidates == Http("ok", TRUE, "json", FALSE, <<>>)
EmptyCandidates == Http("ok", TRUE, "json", TRUE, <<>>)

FailedResponses == {NetError, HttpError, BodyError, NoCandidates, EmptyCandidates}

\* results of a function body: a value returned or an exception thrown
Return(v) == [thrown |-> FALSE, value |-> v]
Throw     == [thrown |-> TRUE, value |-> <<>>]

\* api.js:88-111, 195-213, 294-318: fetch, response.ok, response.json(),
\* data.candidates, candidates[0].content.parts[0].text
FetchText(resp) ==
    IF resp.net # "ok" THEN Throw
    ELSE IF ~resp.ok THEN Throw
    ELSE IF resp.body # "json" THEN Throw
    ELSE IF ~resp.hasCandidates THEN Throw
    ELSE IF Len(resp.candidates) = 0 THEN Throw
    ELSE Return(resp.candidates[1])

\* FixIndices without the search for the mistake's text
FixIndicesNoSearch(text, mistake) ==
    LET start == Max(0, Min(mistake.start_index, Len(text) - 1))
        end   == Max(start + 1, Min(mistake.end_index, Len(text)))
    IN  [mistake EXCEPT !.start_index = start, !.end_index = end]

\* FixIndices with end_index not clamped to the length of the text
FixIndicesUnclamped(text, mistake) ==
    LET start == Max(0, Min(mistake.start_index, Len(text) - 1))
        end   == Max(start + 1, mistake.end_index)
        extractedText == Substring(text, start, end)
        position == IndexOf(text, mistake.text.s)
    IN  IF Trim(extractedText) # Trim(mistake.text.s) /\ position # -1
        THEN [mistake EXCEPT !.start_index = position,
                             !.end_index = position + Len(mistake.text.s)]
        ELSE [mistake EXCEPT !.start_index = start, !.end_index = end]

\* api.js:334-346: one mistake of words_with_mistakes, its indices clamped
\* and moved to the first occurrence of its text when they do not match
FixIndices(text, mistake) ==
    LET start == Max(0, Min(mistake.start_index, Len(text) - 1))
        end   == Max(start + 1, Min(mistake.end_index, Len(text)))
        extractedText == Substring(text, start, end)
        position == IndexOf(text, mistake.text.s)
    IN  IF Trim(extractedText) # Trim(mistake.text.s) /\ position # -1
        THEN [mistake EXCEPT !.start_index = position,
                             !.end_index = position + Len(mistake.text.s)]
        ELSE [mistake EXCEPT !.start_index = start, !.end_index = end]

\* api.js:232-354: the body of checkGrammarWithDetails inside its try
DetailsBody(text, key, resp) ==
    IF key = "" THEN Return([wwm |-> <<>>])
    ELSE LET got == FetchText(resp) IN
         IF got.thrown THEN Throw
         ELSE IF got.value.kind = "prose" THEN Throw
         ELSE IF got.value.kind = "badjson" THEN Throw
         ELSE LET result == got.value.value IN
              IF result.wwmKind # "list" THEN Return([wwm |-> <<>>])
              \* mistake.text.trim() throws on a mistake without a text
              ELSE IF \E i \in DOMAIN result.wwm : result.wwm[i].text.k # "str"
                   THEN Throw
              ELSE Return([wwm |-> [i \in DOMAIN result.wwm |->
                                       FixIndices(text, result.wwm[i])]])

\* DetailsCatch rethrowing, as the catch of getGrammarSuggestions does
DetailsCatchRethrow(body) == body

\* api.js:355-358: the catch of checkGrammarWithDetails
DetailsCatch(body) ==
    IF body.thrown THEN Return([wwm |-> <<>>]) ELSE body

\* api.js:231-359
checkGrammarWithDetails(text, key, resp) ==
    DetailsCatch(DetailsBody(text, key, resp))

SentimentLabel == <<"S", "e", "n", "t", "i", "m", "e", "n", "t", ":", " ">>
EmojiLabel     == <<"E", "m", "o", "j", "i", ":", " ">>
Neutral        == <<"N", "e", "u", "t", "r", "a", "l">>
NeutralFace    == <<"U+1F610">>

\* api.js:161-164 and 223-226
DefaultSentiment == [sentiment |-> Neutral, emoji |-> NeutralFace]

\* String.prototype.match(/<label>(.*)/): the first occurrence of the label
\* in the text and the rest of its line
MatchAfter(lines, label) ==
    LET with == { i \in DOMAIN lines : IndexOf(lines[i], label) # -1 }
    IN  IF with = {} THEN [found |-> FALSE, group |-> <<>>]
        ELSE LET i == CHOOSE j \in with : \A k \in with : j <= k
                 p == IndexOf(lines[i], label)
             IN  [found |-> TRUE,
                  group |-> SubSeq(lines[i], p + Len(label) + 1, Len(lines[i]))]

\* api.js:154-220: the body of analyzeSentiment inside its try
SentimentBody(text, key, resp) ==
    IF key = "" THEN Return(DefaultSentiment)
    ELSE LET got == FetchText(resp) IN
         IF got.thrown THEN Throw
         ELSE LET sentimentMatch == MatchAfter(got.value.lines, SentimentLabel)
                  emojiMatch     == MatchAfter(got.value.lines, EmojiLabel)
              IN  Return([sentiment |-> IF sentimentMatch.found
                                        THEN Trim(sentimentMatch.group) ELSE Neutral,
                          emoji |-> IF emojiMatch.found
                                    THEN Trim(emojiMatch.group) ELSE NeutralFace])

\* api.js:221-227: the catch of analyzeSentiment
SentimentCatch(body) ==
    IF body.thrown THEN Return(DefaultSentiment) ELSE body

\* api.js:153-228
analyzeSentiment(text, key, resp) ==
    SentimentCatch(SentimentBody(text, key, resp))

\* sample answers to the sentiment prompt
SentimentAnswers ==
    { Answer(Prose(<<SentimentLabel \o <<"C", "a", "l", "m", " ">>,
                     EmojiLabel \o <<":", ")">>>>)),
      Answer(Prose(<<<<"T", "o", "n", "e">>>>)) }

\* sample answers to the detailed grammar prompt
MWas      == Mistake(Str(<<"w", "a", "s">>), Str(<<"w", "e", "r", "e">>), 5, 8)
MGo       == Mistake(Str(<<"g", "o">>), Str(<<"g", "o", "e", "s">>), 0, 40)
MNoText   == Mistake(Undef, Str(<<"x">>), 0, 1)
MNoSugg   == Mistake(Str(<<"o", "k">>), Undef, 9, 11)

DetailAnswers ==
    { Answer(Json(Parsed("list", <<>>))),
      Answer(Json(Parsed("list", <<MWas>>))),
      Answer(Json(Parsed("list", <<MGo, MWas>>))),
      Answer(Json(Parsed("list", <<MWas, MNoSugg>>))),
      Answer(Json(Parsed("list", <<MWas, MNoText>>))),
      Answer(Json(Parsed("missing", <<>>))),
      Answer(Json(Parsed("notlist", <<>>))),
      Answer(Prose(<<>>)),
      Answer(BadJson) }

DetailResponses == FailedResponses \cup DetailAnswers

-----------------------------------------------------------------------------
(* config.js *)

Keys == {"", "k1", "k2"}

\* config.js:35-48: updateApiKey returns whether the key was installed
updateApiKeyOk(newKey) == newKey # ""

updateApiKeyKey(newKey) == IF newKey # "" THEN newKey ELSE apiKey

updateApiKeyUrl(newKey) == IF newKey # "" THEN newKey ELSE apiUrl

-----------------------------------------------------------------------------
(* api.js:9-34: getApiKeyWithRetry polls the key up to maxRetries times,   *)
(* waiting retryDelay between polls.  polls counts the polls already made. *)

KeyMaxRetries == 3

\* the poll of one loop iteration: the key, or "" when none is set
PollKey == apiKey

\* after a failed poll the loop waits only if attempts < maxRetries - 1
WaitsAfterPoll(polls) == polls - 1 < KeyMaxRetries - 1

-----------------------------------------------------------------------------
(* grammarCheck.js: checkGrammar *)

CACHE_EXPIRY_MS == 30 * 60 * 1000

TickMs == 10 * 60 * 1000

NoEntry == [present |-> FALSE, errors |-> <<>>, timestamp |-> 0]

\* CacheFresh with the expiry compared by <= instead of <
CacheFreshInclusive(entry, t) == entry.present /\ t - entry.timestamp <= CACHE_EXPIRY_MS

\* grammarCheck.js:111-112: a cached result that is not expired
CacheFresh(entry, t) == entry.present /\ t - entry.timestamp < CACHE_EXPIRY_MS

\* grammarCheck.js:132-138
ValidMistake(m) ==
    /\ m.text.k = "str"
    /\ m.suggestion.k = "str"
    /\ m.start_index >= 0
    /\ m.end_index > m.start_index

\* grammarCheck.js:143-149
ToError(m) ==
    [error |-> m.text.s, suggestion |-> m.suggestion.s, type |-> m.mistake_type,
     startPos |-> m.start_index, endPos |-> m.end_index]

\* grammarCheck.js:130-150: map to the UI format, invalid mistakes dropped
ConvertMistakes(wwm) ==
    LET valid == SelectSeq(wwm, ValidMistake)
    IN  [i \in 1..Len(valid) |-> ToError(valid[i])]

NoInput  == [text |-> <<>>, key |-> "", resp |-> NetError]
NoOutput == [done |-> {}, details |-> Throw, check |-> Throw, sentiment |-> Throw]

Idle == [phase |-> "idle", text |-> <<>>, polls |-> 0, key |-> ""]

FreeSlots == { i \in DOMAIN inflight : inflight[i].phase = "idle" }

NoCall == [text |-> <<>>, hadEntry |-> FALSE, entryTs |-> 0, entryErrors |-> <<>>,
           at |-> 0, hit |-> FALSE, requested |-> FALSE, returned |-> <<>>]

NoDone == [text |-> <<>>, errors |-> <<>>, at |-> 0, entry |-> NoEntry, fetched |-> FALSE,
           failed |-> FALSE]

\* grammarCheck.js:103-121 with api.js:231-241 and 9-25: checkGrammar from
\* its call to its first await: the length guard, the cache lookup, and on
\* a miss the call of checkGrammarWithDetails, whose getApiKeyWithRetry
\* polls the key once before it first waits
CheckGrammarCall(text) ==
    LET entry == grammarCheckCache[text]
        hit   == ~TooShort(text) /\ CacheFresh(entry, now)
        miss  == ~TooShort(text) /\ ~CacheFresh(entry, now)
    IN  /\ miss => FreeSlots # {}
        /\ lastCall' = [text |-> text, hadEntry |-> entry.present,
                        entryTs |-> entry.timestamp, entryErrors |-> entry.errors,
                        at |-> now, hit |-> hit, requested |-> miss,
                        returned |-> IF hit THEN entry.errors ELSE <<>>]
        /\ IF miss
           THEN \E i \in FreeSlots :
                   /\ \A j \in FreeSlots : i <= j
                   /\ inflight' = [inflight EXCEPT ![i] =
                         [phase |-> IF PollKey # "" THEN "fetch" ELSE "key",
                          text |-> text, polls |-> 1, key |-> PollKey]]
           ELSE UNCHANGED inflight
        /\ UNCHANGED <<grammarCheckCache, lastDone, pageVars>>

\* grammarCheck.js:117-158: the try block of checkGrammar once the awaited
\* checkGrammarWithDetails has settled
checkGrammarTry(detailed) ==
    IF detailed.thrown THEN Throw
    ELSE Return(ConvertMistakes(detailed.value.wwm))

\* grammarCheck.js:159-162: the catch of checkGrammar
checkGrammarCatch(body) ==
    IF body.thrown THEN Return(<<>>) ELSE body

\* grammarCheck.js:103-163: checkGrammar on a text that is not cached
checkGrammarUncached(text, key, resp) ==
    IF TooShort(text) THEN Return(<<>>)
    ELSE checkGrammarCatch(checkGrammarTry(checkGrammarWithDetails(text, key, resp)))

\* grammarCheck.js:121-162: checkGrammar after checkGrammarWithDetails has
\* settled: the errors are cached under the text with the current time,
\* unless the try block threw; failed records whether checkGrammarWithDetails
\* had caught an error or had found no key
CheckGrammarFinish(i, detailed, failed) ==
    LET text   == inflight[i].text
        body   == checkGrammarTry(detailed)
        errors == checkGrammarCatch(body).value
        entry  == [present |-> TRUE, errors |-> errors, timestamp |-> now]
    IN  /\ grammarCheckCache' = IF body.thrown THEN grammarCheckCache
                                ELSE [grammarCheckCache EXCEPT ![text] = entry]
        /\ lastDone' = [text |-> text, errors |-> errors, at |-> now,
                        entry |-> grammarCheckCache'[text],
                        fetched |-> inflight[i].phase = "fetch",
                        failed |-> failed]
        /\ inflight' = [inflight EXCEPT ![i] = Idle]

\* api.js:26-33 and 236-241: the retry timer of getApiKeyWithRetry fires and
\* the key is polled again; after the last poll without a key
\* checkGrammarWithDetails returns an empty list and checkGrammar goes on
KeyPoll(i) ==
    /\ inflight[i].phase = "key"
    /\ IF PollKey # ""
       THEN /\ inflight' = [inflight EXCEPT ![i].phase = "fetch",
                                            ![i].polls = @ + 1,
                                            ![i].key = PollKey]
            /\ UNCHANGED <<grammarCheckCache, lastDone>>
       ELSE IF WaitsAfterPoll(inflight[i].polls + 1)
       THEN /\ inflight' = [inflight EXCEPT ![i].polls = @ + 1]
            /\ UNCHANGED <<grammarCheckCache, lastDone>>
       ELSE CheckGrammarFinish(i, checkGrammarWithDetails(inflight[i].text, "", NetError),
                               TRUE)
    /\ UNCHANGED <<lastCall, pageVars>>

\* api.js:294-358 and grammarCheck.js:121-158: the fetch settles
FetchDone(i, resp) ==
    /\ inflight[i].phase = "fetch"
    /\ CheckGrammarFinish(i, checkGrammarWithDetails(inflight[i].text, inflight[i].key, resp),
                          DetailsBody(inflight[i].text, inflight[i].key, resp).thrown)
    /\ UNCHANGED <<lastCall, pageVars>>

\* time passes
Tick ==
    /\ now < MaxTicks * TickMs
    /\ now' = now + TickMs
    /\ UNCHANGED <<apiKey, apiUrl, cacheVars>>

\* config.js:35-48: a key arrives (storage load or API_KEY_UPDATED)
UpdateApiKey(newKey) ==
    /\ apiKey' = updateApiKeyKey(newKey)
    /\ apiUrl' = updateApiKeyUrl(newKey)
    /\ UNCHANGED <<now, cacheVars>>

-----------------------------------------------------------------------------
(* api.js: getGrammarSuggestions.  The regular expressions of its clean-up  *)
(* are written out as operators on sequences of characters.                 *)

Digits == {"0", "1", "2", "3", "4", "5", "6", "7", "8", "9"}

Spaces == {" ", "\t", "\n", "\r"}

Letters ==
    {"a", "b", "c", "d", "e", "f", "g", "h", "i", "j", "k", "l", "m", "n", "o",
     "p", "q", "r", "s", "t", "u", "v", "w", "x", "y", "z", "A", "B", "C", "D",
     "E", "F", "G", "H", "I", "J", "K", "L", "M", "N", "O", "P", "Q", "R", "S",
     "T", "U", "V", "W", "X", "Y", "Z"}

\* the positions (from 1) of s that hold one of the characters cs
Positions(s, cs) == { i \in DOMAIN s : s[i] \in cs }

First(S) == CHOOSE i \in S : \A j \in S : i <= j
Last(S)  == CHOOSE i \in S : \A j \in S : i >= j

\* the length of the longest prefix of s made of the characters cs
RECURSIVE Leading(_, _)
Leading(s, cs) ==
    IF s # <<>> /\ Head(s) \in cs THEN 1 + Leading(Tail(s), cs) ELSE 0

\* /^\d+\./ : the numbering without the white space after it
NumberedPrefixNoSpace(line) ==
    LET d == Leading(line, Digits)
    IN  IF d >= 1 /\ Len(line) >= d + 1 /\ line[d + 1] = "." THEN d + 1 ELSE 0

\* api.js:116, 119: /^\d+\.\s/ : the length of the match, 0 for no match
NumberedPrefix(line) ==
    LET d == Leading(line, Digits)
    IN  IF d >= 1 /\ Len(line) >= d + 2 /\ line[d + 1] = "." /\ IsSpace(line[d + 2])
        THEN d + 2 ELSE 0

\* api.js:121: line.replace(/\*\*/g, '')
RECURSIVE RemoveStars(_)
RemoveStars(s) ==
    IF Len(s) < 2 THEN s
    ELSE IF s[1] = "*" /\ s[2] = "*" THEN RemoveStars(SubSeq(s, 3, Len(s)))
    ELSE <<s[1]>> \o RemoveStars(Tail(s))

\* api.js:123: the label up to the first colon, which every alternative of
\* /^(?:Grammatically corrected version:|Alternative version \d+:|[^:]+:)\s*/i
\* matches, and the white space after it
RemoveLabel(s) ==
    LET colons == Positions(s, {":"})
    IN  IF colons # {} /\ First(colons) >= 2
        THEN TrimStart(SubSeq(s, First(colons) + 1, Len(s)))
        ELSE s

\* api.js:125: line.replace(/\s*\([^)]+\)/g, '')
RECURSIVE RemoveParens(_)
RemoveParens(s) ==
    IF s = <<>> THEN s
    ELSE LET w == Leading(s, Spaces)
             closes == { r \in Positions(s, {")"}) : r > w + 1 }
         IN  IF w < Len(s) /\ s[w + 1] = "(" /\ closes # {} /\ First(closes) >= w + 3
             THEN RemoveParens(SubSeq(s, First(closes) + 1, Len(s)))
             ELSE <<s[1]>> \o RemoveParens(Tail(s))

\* api.js:127: line.replace(/[\[\]]/g, '')
RemoveBrackets(s) == SelectSeq(s, LAMBDA c : c \notin {"[", "]"})

\* api.js:129: /\.\s+(?:[A-Z][^.]*|This[^.]*|Here[^.]*|The[^.]*)$/i -> '.':
\* only the last period can be followed by no other period up to the end
CutAfterPeriod(s) ==
    LET dots == Positions(s, {"."})
    IN  IF dots = {} THEN s
        ELSE LET p == Last(dots)
                 rest == SubSeq(s, p + 1, Len(s))
                 w == Leading(rest, Spaces)
             IN  IF w >= 1 /\ w < Len(rest) /\ rest[w + 1] \in Letters
                 THEN SubSeq(s, 1, p)
                 ELSE s

\* api.js:131: line.replace(/^["']|["']$/g, '')
StripQuotes(s) ==
    LET a == IF s # <<>> /\ s[1] \in {"\"", "'"} THEN Tail(s) ELSE s
    IN  IF a # <<>> /\ a[Len(a)] \in {"\"", "'"} THEN SubSeq(a, 1, Len(a) - 1) ELSE a

\* api.js:133: replace(/\s+/g, ' ')
RECURSIVE CollapseSpaces(_)
CollapseSpaces(s) ==
    IF s = <<>> THEN s
    ELSE LET w == Leading(s, Spaces)
         IN  IF w >= 1 THEN <<" ">> \o CollapseSpaces(SubSeq(s, w + 1, Len(s)))
             ELSE <<s[1]>> \o CollapseSpaces(Tail(s))

\* api.js:135-137: if (!/[.!?]$/.test(line)) line = line + '.'
EnsurePunctuation(s) ==
    IF s # <<>> /\ s[Len(s)] \in {".", "!", "?"} THEN s ELSE s \o <<".">>

\* api.js:117-139: the map over the numbered lines
CleanLine(line) ==
    LET a == SubSeq(line, NumberedPrefix(line) + 1, Len(line))
        b == RemoveLabel(RemoveStars(a))
        c == CutAfterPeriod(RemoveBrackets(RemoveParens(b)))
    IN  EnsurePunctuation(CollapseSpaces(Trim(StripQuotes(c))))

\* api.js:115-141: split('\n').filter(...).map(...).filter(...)
ParseSuggestions(lines) ==
    LET numbered == SelectSeq(lines, LAMBDA line : NumberedPrefix(line) > 0)
        cleaned == [i \in DOMAIN numbered |-> CleanLine(numbered[i])]
    IN  SelectSeq(cleaned, LAMBDA line : Len(line) > 0)

\* api.js:47: the one element of the list returned when there is no key
NoKeyMessage ==
    <<"N", "o", " ", "A", "P", "I", " ", "k", "e", "y", " ", "s", "e", "t",
      ".", " ", "P", "l", "e", "a", "s", "e", " ", "s", "e", "t", " ", "y",
      "o", "u", "r", " ", "A", "P", "I", " ", "k", "e", "y", " ", "i", "n",
      " ", "t", "h", "e", " ", "e", "x", "t", "e", "n", "s", "i", "o", "n",
      " ", "s", "e", "t", "t", "i", "n", "g", "s", ".">>

\* api.js:38-145: getGrammarSuggestions inside its try, for the key that
\* getApiKeyWithRetry returned and the exchange with the endpoint
SuggestionsBody(key, resp) ==
    IF key = "" THEN Return(<<NoKeyMessage>>)
    ELSE LET got == FetchText(resp)
         IN  IF got.thrown THEN Throw ELSE Return(ParseSuggestions(got.value.lines))

\* api.js:146-149: catch (error) { ...; throw error; }
SuggestionsCatch(body) == body

getGrammarSuggestions(key, resp) == SuggestionsCatch(SuggestionsBody(key, resp))

\* sample lines of an answer to the suggestions prompt
LineOk      == <<"1", ".", " ", "O", "k">>
LineLabel   == <<"2", ".", " ", "*", "*", "A", "*", "*", ":", " ", "b", " ", "(", "x", ")">>
LineQuoted  == <<"1", "0", ".", " ", "\"", "H", "i", ".", " ", "o", "k", "\"">>
LineBare    == <<"4", ".", " ">>
LineIntro   == <<"S", "u", "r", "e", ":">>
LineNoSpace == <<"3", ".", "x">>
LineIndent  == <<" ", "5", ".", " ", "x">>

SuggestionLines ==
    {LineOk, LineLabel, LineQuoted, LineBare, LineIntro, LineNoSpace, LineIndent}

-----------------------------------------------------------------------------
(* dom.js: getInputContent and replaceSentence, for an input or textarea.  *)

\* getInputContent: the trimmed value and the range of the whole value
getInputContent(value) ==
    IF Trim(value) = <<>>
    THEN [text |-> <<>>, startPos |-> 0, endPos |-> 0]
    ELSE [text |-> Trim(value), startPos |-> 0, endPos |-> Len(value)]

\* String.prototype.indexOf(needle, from)
IndexOfFrom(s, needle, from) ==
    LET hits == { p \in Max(0, from)..(Len(s) - Len(needle)) :
                    SubSeq(s, p + 1, p + Len(needle)) = needle }
    IN  IF hits = {} THEN -1 ELSE First(hits)

\* searchText.split(/\s+/) of a trimmed text
RECURSIVE Words(_)
Words(s) ==
    IF s = <<>> THEN <<>>
    ELSE LET w == Leading(s, Spaces)
         IN  IF w >= 1 THEN Words(SubSeq(s, w + 1, Len(s)))
             ELSE LET spaces == Positions(s, Spaces)
                      n == IF spaces = {} THEN Len(s) ELSE First(spaces) - 1
                  IN  <<SubSeq(s, 1, n)>> \o Words(SubSeq(s, n + 1, Len(s)))

\* words.join(' ')
RECURSIVE JoinWords(_)
JoinWords(words) ==
    IF words = <<>> THEN <<>>
    ELSE IF Len(words) = 1 THEN words[1]
    ELSE words[1] \o <<" ">> \o JoinWords(Tail(words))

NotFound == [found |-> FALSE, startPos |-> 0, endPos |-> 0]

\* findFuzzyMatch: the longest prefix of at least two words that occurs in
\* the text, extended to the next word when it follows within 20 characters;
\* else the first word and up to 50 characters after it
findFuzzyMatch(text, searchText) ==
    LET words == Words(searchText)
        tries == { i \in 2..(Len(words) - 1) :
                     IndexOf(text, JoinWords(SubSeq(words, 1, i))) >= 0 }
    IN  IF text = <<>> \/ searchText = <<>> \/ Len(words) <= 1 THEN NotFound
        ELSE IF tries # {}
        THEN LET i == Last(tries)
                 partialPhrase == JoinWords(SubSeq(words, 1, i))
                 partialIndex == IndexOf(text, partialPhrase)
                 endPos == partialIndex + Len(partialPhrase)
                 nextWordIndex == IndexOfFrom(text, words[i + 1], endPos)
             IN  [found |-> TRUE, startPos |-> partialIndex,
                  endPos |-> IF nextWordIndex >= 0 /\ nextWordIndex - endPos < 20
                             THEN nextWordIndex + Len(words[i + 1]) ELSE endPos]
        ELSE LET firstWordIndex == IndexOf(text, words[1])
                 after == firstWordIndex + Len(words[1])
             IN  IF firstWordIndex >= 0
                 THEN [found |-> TRUE, startPos |-> firstWordIndex,
                       endPos |-> after + Min(Len(text) - after, 50)]
                 ELSE NotFound

\* replaceSentence: where the replacement goes; ok is FALSE where the
\* function returns false before it writes
ReplaceRange(value, suggestion, sentenceInfo) ==
    LET endPos == Min(sentenceInfo.endPos, Len(value))
        textToReplace == Substring(value, sentenceInfo.startPos, endPos)
        exactIndex == IndexOf(value, sentenceInfo.text)
        suggestionIndex == IndexOf(value, suggestion)
        fuzzyMatch == findFuzzyMatch(value, sentenceInfo.text)
        range(ok, a, b) == [ok |-> ok, startPos |-> a, endPos |-> b]
    IN  IF sentenceInfo.startPos < 0 \/ sentenceInfo.endPos < sentenceInfo.startPos
        THEN range(FALSE, 0, 0)
        ELSE IF value = <<>> THEN range(FALSE, 0, 0)
        ELSE IF sentenceInfo.text = <<>> \/ textToReplace = sentenceInfo.text
        THEN range(TRUE, sentenceInfo.startPos, endPos)
        ELSE IF exactIndex >= 0
        THEN range(TRUE, exactIndex, exactIndex + Len(sentenceInfo.text))
        ELSE IF suggestion = <<>> THEN range(FALSE, 0, 0)
        ELSE IF suggestionIndex >= 0
        THEN range(TRUE, suggestionIndex, suggestionIndex + Len(suggestion))
        ELSE range(fuzzyMatch.found, fuzzyMatch.startPos, fuzzyMatch.endPos)

\* replaceSentence writing the suggestion with the blanks around it
replaceSentenceUntrimmed(value, suggestion, sentenceInfo) ==
    LET r == ReplaceRange(value, suggestion, sentenceInfo)
    IN  IF ~r.ok \/ r.startPos < 0 \/ r.endPos > Len(value) \/ r.startPos >= r.endPos
        THEN [value |-> value, result |-> FALSE]
        ELSE [value |-> Substring(value, 0, r.startPos) \o suggestion
                        \o Substring(value, r.endPos, Len(value)),
              result |-> TRUE]

\* replaceSentence: the value of the field afterwards and the result
replaceSentence(value, suggestion, sentenceInfo) ==
    LET r == ReplaceRange(value, suggestion, sentenceInfo)
    IN  IF ~r.ok \/ r.startPos < 0 \/ r.endPos > Len(value) \/ r.startPos >= r.endPos
        THEN [value |-> value, result |-> FALSE]
        ELSE [value |-> Substring(value, 0, r.startPos) \o Trim(suggestion)
                        \o Substring(value, r.endPos, Len(value)),
              result |-> TRUE]

-----------------------------------------------------------------------------
(* ui.js: showSuggestionsPopup, and the click handler of the logo.  The     *)
(* suggestions argument is [null, list]; the popup is [kind, items, info,   *)
(* visible] with kind "none", "tooShort", "loading", "items" or "unable".   *)

NullSuggestions == [null |-> TRUE, list |-> <<>>]
Suggestions(list) == [null |-> FALSE, list |-> list]

NoInfo == [text |-> <<>>, startPos |-> 0, endPos |-> 0]

NoPopup == [kind |-> "none", items |-> <<>>, info |-> NoInfo, visible |-> FALSE]

NoClick ==
    [clicked |-> FALSE, info |-> NoInfo, polls |-> 0, key |-> "",
     requested |-> FALSE, resp |-> NetError, failed |-> FALSE,
     failText |-> <<>>, show |-> NullSuggestions, showInfo |-> NoInfo,
     escaped |-> FALSE, done |-> FALSE]

\* showSuggestionsPopup, line 767: the message for a text that is too short
ShowsTooShort(suggestions, sentenceInfo) ==
    ~suggestions.null /\ TooShort(sentenceInfo.text)

\* showSuggestionsPopup: the loading state is followed by analyzeSentiment
AwaitsSentiment(sentenceInfo) == Len(Trim(sentenceInfo.text)) >= 10

\* showSuggestionsPopup: the popup after the sentiment is known; one item per
\* suggestion, or the message that none could be generated
RenderPopup(suggestions, sentenceInfo) ==
    IF ~suggestions.null /\ Len(suggestions.list) > 0
    THEN [kind |-> "items", items |-> suggestions.list, info |-> sentenceInfo,
          visible |-> TRUE]
    ELSE [kind |-> "unable", items |-> <<>>, info |-> sentenceInfo, visible |-> TRUE]

\* the click handler's try block after getGrammarSuggestions settled: the
\* arguments of showSuggestionsPopup, or the exception
ClickTry(result, contentInfo) ==
    [thrown |-> result.thrown,
     show |-> IF result.thrown THEN NullSuggestions ELSE Suggestions(result.value),
     showInfo |-> contentInfo]

\* a click handler without its catch block
ClickNoCatch(try, value) == try

\* the click handler's catch block: showSuggestionsPopup(element, logo, [],
\* getInputContent(element))
ClickCatch(try, value) ==
    IF try.thrown
    THEN [thrown |-> FALSE, show |-> Suggestions(<<>>), showInfo |-> getInputContent(value)]
    ELSE try

-----------------------------------------------------------------------------
(* The parts of the extension a specification does not exercise rest in    *)
(* these states.                                                            *)

DetailIdle ==
    /\ dtStorageOk = TRUE
    /\ dtStored = "none"
    /\ dtLast = "none"
    /\ dtText = <<>>
    /\ dtSetup = {}
    /\ dtListeners = {}
    /\ dtTimer = {}
    /\ dtChecks = {}
    /\ dtShown = <<>>

ScriptIdle ==
    /\ scPc = "inject"
    /\ scObservers = {}
    /\ scMutations = {}

\* no text has been replaced yet
NoApply ==
    [fn |-> "none", kind |-> "input", before |-> <<>>, after |-> <<>>,
     startPos |-> 0, endPos |-> 0, error |-> <<>>, suggestion |-> <<>>,
     path |-> "none", result |-> FALSE, n |-> 0,
     isConnected |-> TRUE, hlBefore |-> <<>>, hlAfter |-> <<>>]

EditIdle ==
    /\ edKind = "input"
    /\ edNodes = <<>>
    /\ edHighlights = <<>>
    /\ edLast = NoApply

\* no logo has been clicked yet
NoLogoClick == [clicked |-> FALSE, logo |-> 0, for |-> 0, requests |-> {}, popups |-> {}]

LogoIdle ==
    /\ lgText = <<>>
    /\ lgLogo = <<>>
    /\ lgCount = 0
    /\ lgAttached = <<>>
    /\ lgShownFor = <<>>
    /\ lgLast = NoLogoClick

NoReplace ==
    [before |-> <<>>, after |-> <<>>, result |-> FALSE, suggestion |-> <<>>,
     info |-> [text |-> <<>>, startPos |-> 0, endPos |-> 0], captured |-> <<>>,
     again |-> FALSE, n |-> 0]

ReplaceIdle ==
    /\ rpValue = <<>>
    /\ rpInfo = NoInfo
    /\ rpCaptured = <<>>
    /\ rpLast = NoReplace

RekeyIdle ==
    /\ rkText = <<>>
    /\ rkSkipped = {}
    /\ rkAwaiting = {}
    /\ rkChecked = <<>>

ApiIdle == apiIn = NoInput /\ apiOut = NoOutput

DebounceIdle ==
    /\ dbDelay = 0
    /\ dbNow = 0
    /\ dbTimer = 0
    /\ dbPending = {}
    /\ dbCalls = <<>>
    /\ dbExecs = <<>>

NoReply ==
    [sent |-> FALSE, key |-> "", success |-> FALSE, keyBefore |-> "",
     urlBefore |-> "", enabled |-> {}, triggered |-> {}]

NoCheck == [phase |-> "idle", kind |-> "debounced", id |-> 0, text |-> <<>>, peers |-> {}]

NoLast == [id |-> 0, kind |-> "debounced", errors |-> <<>>, text |-> <<>>,
           checked |-> <<>>, raced |-> FALSE]

RaceIdle ==
    /\ rcText = <<>>
    /\ rcChecks = [i \in 1..MaxRace |-> NoCheck]
    /\ rcStarted = 0
    /\ rcDone = {}
    /\ rcShown = <<>>
    /\ rcLast = NoLast

ClickIdle ==
    /\ ckText = <<>>
    /\ ckPc = "idle"
    /\ ckClick = NoClick
    /\ ckPopup = NoPopup

MsgIdle ==
    /\ msgStorageOk = TRUE
    /\ msgEnabled = {}
    /\ msgPending = {}
    /\ msgReply = NoReply

StartIdle ==
    /\ stHost = <<>>
    /\ stFrame = "top"
    /\ stFail = "none"
    /\ stPc = "load"
    /\ stScans = {}
    /\ stTimers = {}
    /\ stPage = {}
    /\ stSetup = {}

LoadIdle ==
    /\ ldStored = ""
    /\ ldPc = "start"
    /\ ldRetry = 0
    /\ ldAttempts = 0
    /\ ldReads = 0
    /\ ldTasks = {}
    /\ ldPromise = "pending"

CacheIdle ==
    /\ grammarCheckCache = [t \in Texts |-> NoEntry]
    /\ inflight = [i \in 1..MaxInflight |-> Idle]
    /\ lastCall = NoCall
    /\ lastDone = NoDone

-----------------------------------------------------------------------------
(* checkGrammar and its cache over time *)

InitCache ==
    /\ apiKey \in {"", "k1"}
    /\ apiUrl = apiKey
    /\ now = 0
    /\ grammarCheckCache = [t \in Texts |-> NoEntry]
    /\ inflight = [i \in 1..MaxInflight |-> Idle]
    /\ lastCall = NoCall
    /\ lastDone = NoDone
    /\ ApiIdle
    /\ DebounceIdle
    /\ LoadIdle
    /\ StartIdle
    /\ MsgIdle
    /\ ClickIdle
    /\ RaceIdle
    /\ DetailIdle
    /\ ScriptIdle
    /\ EditIdle
    /\ LogoIdle
    /\ ReplaceIdle
    /\ RekeyIdle

CacheTexts == {TPadded, TLongA, TLongB}

CacheResponses ==
    { HttpError,
      Answer(Json(Parsed("list", <<>>))),
      Answer(Json(Parsed("list", <<MWas>>))),
      Answer(Json(Parsed("list", <<MWas, MNoSugg>>))) }

restCache == <<apiVars, dbVars, loadVars, startVars, msgVars, clickVars, raceVars, detailVars, scriptVars, editVars, logoVars, replaceVars, rekeyVars>>

NextCache ==
    \/ \E t \in CacheTexts : CheckGrammarCall(t) /\ UNCHANGED restCache
    \/ \E i \in DOMAIN inflight : KeyPoll(i) /\ UNCHANGED restCache
    \/ \E i \in DOMAIN inflight : \E r \in CacheResponses :
          FetchDone(i, r) /\ UNCHANGED restCache
    \/ \E k \in {"", "k1"} : UpdateApiKey(k) /\ UNCHANGED restCache
    \/ Tick /\ UNCHANGED restCache

SpecCache == InitCache /\ [][NextCache]_vars

\* C1: checkGrammar(T) answers from the cache, without calling the API, exactly
\* when an entry stored under T is younger than 30 minutes; an entry of 30
\* minutes or more is ignored: the API is called again and, when it answers,
\* the entry is replaced by the new result stamped with the current time.
\* (The API request is the call of checkGrammarWithDetails.)
C1_CacheExpiry ==
    /\ (lastCall # NoCall /\ ~TooShort(lastCall.text)) =>
          LET young == lastCall.hadEntry
                       /\ lastCall.at - lastCall.entryTs < 30 * 60 * 1000
          IN  /\ lastCall.hit <=> young
              /\ lastCall.requested <=> ~young
              /\ lastCall.hit => lastCall.returned = lastCall.entryErrors
    /\ lastDone # NoDone =>
          /\ grammarCheckCache[lastDone.text].present
          /\ lastDone.entry = [present |-> TRUE, errors |-> lastDone.errors,
                               timestamp |-> lastDone.at]

\* an entry exactly 30 minutes old was ignored, and the new answer replaced it
C1_Witness ==
    /\ lastCall.hadEntry
    /\ lastCall.at - lastCall.entryTs = 30 * 60 * 1000
    /\ lastCall.requested
    /\ lastDone.text = lastCall.text
    /\ lastDone.at >= lastCall.at
    /\ grammarCheckCache[lastCall.text].timestamp = lastDone.at
    /\ lastDone.fetched

\* a young entry answered the call
C1_WitnessHit ==
    /\ lastCall.hit
    /\ lastCall.returned # <<>>
    /\ lastCall.at > lastCall.entryTs

\* C17: a check whose API call failed (the request or its answer raised an
\* error inside checkGrammarWithDetails, or no key was found) leaves nothing
\* in the cache that answers the next check of the same text: that check
\* is not a cache hit.
C17_FailureNotCached ==
    (lastDone.failed /\ lastCall.text = lastDone.text /\ lastCall.at >= lastDone.at)
    => ~lastCall.hit

-----------------------------------------------------------------------------
(* The three API functions applied to one request and its answer *)

ApiResponses == DetailResponses \cup SentimentAnswers

InitApi ==
    /\ apiIn \in [text : Texts, key : {"", "k1"}, resp : ApiResponses]
    /\ apiOut = NoOutput
    /\ apiKey = apiIn.key
    /\ apiUrl = apiIn.key
    /\ now = 0
    /\ CacheIdle
    /\ DebounceIdle
    /\ LoadIdle
    /\ StartIdle
    /\ MsgIdle
    /\ ClickIdle
    /\ RaceIdle
    /\ DetailIdle
    /\ ScriptIdle
    /\ EditIdle
    /\ LogoIdle
    /\ ReplaceIdle
    /\ RekeyIdle

\* api.js:231-359
ApplyDetails ==
    /\ "details" \notin apiOut.done
    /\ apiOut' = [apiOut EXCEPT
                    !.done = @ \cup {"details"},
                    !.details = checkGrammarWithDetails(apiIn.text, apiIn.key, apiIn.resp)]
    /\ UNCHANGED apiIn

\* grammarCheck.js:103-163
ApplyCheckGrammar ==
    /\ "check" \notin apiOut.done
    /\ apiOut' = [apiOut EXCEPT
                    !.done = @ \cup {"check"},
                    !.check = checkGrammarUncached(apiIn.text, apiIn.key, apiIn.resp)]
    /\ UNCHANGED apiIn

\* api.js:153-228
ApplySentiment ==
    /\ "sentiment" \notin apiOut.done
    /\ apiOut' = [apiOut EXCEPT
                    !.done = @ \cup {"sentiment"},
                    !.sentiment = analyzeSentiment(apiIn.text, apiIn.key, apiIn.resp)]
    /\ UNCHANGED apiIn

restApi == <<pageVars, cacheVars, dbVars, loadVars, startVars, msgVars, clickVars, raceVars, detailVars, scriptVars, editVars, logoVars, replaceVars, rekeyVars>>

NextApi ==
    \/ ApplyDetails /\ UNCHANGED restApi
    \/ ApplyCheckGrammar /\ UNCHANGED restApi
    \/ ApplySentiment /\ UNCHANGED restApi

SpecApi == InitApi /\ [][NextApi]_vars

\* the failures of a request, read off the request and its answer
RequestFails(in) ==
    \/ in.key = ""
    \/ in.resp.net # "ok"
    \/ ~in.resp.ok
    \/ in.resp.body # "json"
    \/ ~in.resp.hasCandidates
    \/ in.resp.candidates = <<>>

AnswerUnusable(in) ==
    LET answer == in.resp.candidates[1]
    IN  \/ answer.kind # "json"
        \/ answer.value.wwmKind # "list"
        \/ \E i \in DOMAIN answer.value.wwm : answer.value.wwm[i].text.k = "undef"

\* C6: checkGrammarWithDetails, checkGrammar and analyzeSentiment never throw
\* or reject; on a failure (missing key, network or HTTP error, no candidates,
\* answer without a JSON object, unparsable JSON, words_with_mistakes missing
\* or not a list, a mistake without a text) the first returns
\* {words_with_mistakes: []}, the second an empty list, and on a failed
\* request the third returns the default Neutral sentiment.
C6_NeverThrow ==
    /\ "details" \in apiOut.done =>
          /\ ~apiOut.details.thrown
          /\ (RequestFails(apiIn) \/ AnswerUnusable(apiIn)) =>
                apiOut.details.value = [wwm |-> <<>>]
    /\ "check" \in apiOut.done =>
          /\ ~apiOut.check.thrown
          /\ (RequestFails(apiIn) \/ AnswerUnusable(apiIn)) =>
                apiOut.check.value = <<>>
    /\ "sentiment" \in apiOut.done =>
          /\ ~apiOut.sentiment.thrown
          /\ RequestFails(apiIn) => apiOut.sentiment.value = DefaultSentiment

\* all three have been applied to an answer holding a mistake without a text
C6_Witness ==
    /\ apiOut.done = {"details", "check", "sentiment"}
    /\ ~RequestFails(apiIn)
    /\ apiIn.resp.candidates[1].kind = "json"
    /\ apiIn.resp.candidates[1].value.wwmKind = "list"
    /\ AnswerUnusable(apiIn)
    /\ ~TooShort(apiIn.text)

-----------------------------------------------------------------------------
(* utils.js: debounce(fn, delay).  A timeout set at time t with the delay  *)
(* d runs at t + d: the clock does not pass a timeout that is due.         *)

\* clearTimeout that clears nothing
ClearTimeoutNothing(pending, id) == pending

\* clearTimeout(id): the timeout with this id, if pending, never runs
ClearTimeout(pending, id) == { t \in pending : t.id # id }

\* setTimeout(() => fn(...args), delay)
SetTimeout(pending, id, args) ==
    pending \cup {[id |-> id, args |-> args, due |-> dbNow + dbDelay]}

\* utils.js:9-12: a call of the function debounce returned
DebouncedCall(args) ==
    /\ Len(dbCalls) < MaxCalls
    /\ dbPending' = SetTimeout(ClearTimeout(dbPending, dbTimer), Len(dbCalls) + 1, args)
    /\ dbTimer' = Len(dbCalls) + 1
    /\ dbCalls' = Append(dbCalls, [args |-> args, at |-> dbNow])
    /\ UNCHANGED <<dbDelay, dbNow, dbExecs>>

\* utils.js:11: a timeout that is due runs fn with the arguments of its call
TimeoutRuns(t) ==
    /\ t \in dbPending
    /\ t.due <= dbNow
    /\ dbPending' = dbPending \ {t}
    /\ dbExecs' = Append(dbExecs, [call |-> t.id, args |-> t.args, at |-> dbNow,
                                    seen |-> Len(dbCalls)])
    /\ UNCHANGED <<dbDelay, dbNow, dbTimer, dbCalls>>

\* the clock of the timers advances
DebounceTick ==
    /\ dbNow < MaxDbTime
    /\ \A t \in dbPending : t.due > dbNow
    /\ dbNow' = dbNow + 1
    /\ UNCHANGED <<dbDelay, dbTimer, dbPending, dbCalls, dbExecs>>

DebounceArgs == {"a", "b"}

InitDebounce ==
    /\ dbDelay \in {2, 3}
    /\ dbNow = 0
    /\ dbTimer = 0
    /\ dbPending = {}
    /\ dbCalls = <<>>
    /\ dbExecs = <<>>
    /\ apiKey = ""
    /\ apiUrl = ""
    /\ now = 0
    /\ CacheIdle
    /\ ApiIdle
    /\ LoadIdle
    /\ StartIdle
    /\ MsgIdle
    /\ ClickIdle
    /\ RaceIdle
    /\ DetailIdle
    /\ ScriptIdle
    /\ EditIdle
    /\ LogoIdle
    /\ ReplaceIdle
    /\ RekeyIdle

restDebounce == <<pageVars, cacheVars, apiVars, loadVars, startVars, msgVars, clickVars, raceVars, detailVars, scriptVars, editVars, logoVars, replaceVars, rekeyVars>>

NextDebounce ==
    \/ \E a \in DebounceArgs : DebouncedCall(a) /\ UNCHANGED restDebounce
    \/ \E t \in dbPending : TimeoutRuns(t) /\ UNCHANGED restDebounce
    \/ DebounceTick /\ UNCHANGED restDebounce

SpecDebounce == InitDebounce /\ [][NextDebounce]_vars

\* C7: a debounced function runs once per burst: every execution of fn is
\* that of the latest call, happens delay after it and with its arguments, no
\* call is executed twice, and a call followed by another one less than delay
\* later is never executed.
C7_LastCallWins ==
    /\ \A e \in DOMAIN dbExecs :
          /\ dbExecs[e].call = dbExecs[e].seen
          /\ dbExecs[e].args = dbCalls[dbExecs[e].seen].args
          /\ dbExecs[e].at = dbCalls[dbExecs[e].seen].at + dbDelay
    /\ \A e, f \in DOMAIN dbExecs : e # f => dbExecs[e].call # dbExecs[f].call
    /\ \A c \in DOMAIN dbCalls :
          (c + 1 \in DOMAIN dbCalls /\ dbCalls[c + 1].at - dbCalls[c].at < dbDelay) =>
             \A e \in DOMAIN dbExecs : dbExecs[e].call # c
    /\ \A t \in dbPending : t.id = Len(dbCalls)

\* a burst of three calls less than delay apart was executed once, with the
\* arguments of its last call
C7_Witness ==
    /\ Len(dbCalls) = 3
    /\ dbCalls[2].at - dbCalls[1].at < dbDelay
    /\ dbCalls[2].at > dbCalls[1].at
    /\ dbCalls[3].at - dbCalls[2].at < dbDelay
    /\ dbCalls[3].at > dbCalls[2].at
    /\ dbCalls[3].args # dbCalls[2].args
    /\ Len(dbExecs) = 1
    /\ dbExecs[1].args = dbCalls[3].args

-----------------------------------------------------------------------------
(* config.js: loadApiKey.  An attempt (a call of tryLoadApiKey) meets one  *)
(* of these environments:                                                   *)
(*   "nochrome"  the chrome object is not there: the first test throws     *)
(*   "noapis"    chrome.runtime or chrome.storage is missing               *)
(*   "invalid"   chrome.runtime.id is undefined                            *)
(*   "getthrows" chrome.storage.sync.get throws after the timeout was set  *)
(*   "ok"        the read is issued; its callback may arrive or not        *)

maxRetries == 3

LoadEnvs == {"nochrome", "noapis", "invalid", "getthrows", "ok"}

\* a retry guard that always allows another attempt
CanRetryAlways(retryCount) == TRUE

\* config.js:75, 89, 110, 120, 130, 145: retryCount < maxRetries
CanRetry(retryCount) == retryCount < maxRetries

\* resolve(v): only the first settlement of a promise counts
Resolved(v) == IF ldPromise = "pending" THEN v ELSE ldPromise

\* config.js:56-153: one call of tryLoadApiKey with the given retryCount and
\* pending tasks
TryLoadApiKey(env, retryCount, tasks) ==
    LET n == ldAttempts + 1
        timeout == [kind |-> "timeout", n |-> n]
        callback == [kind |-> "callback", n |-> n]
        retry == [kind |-> "retry", n |-> n]
        \* config.js:143-152: the catch block
        caught(ts) ==
            IF CanRetry(retryCount)
            THEN /\ ldRetry' = retryCount + 1
                 /\ ldTasks' = ts \cup {retry}
                 /\ UNCHANGED ldPromise
            ELSE /\ ldRetry' = retryCount
                 /\ ldTasks' = ts
                 /\ ldPromise' = Resolved("false")
    IN  /\ ldAttempts < MaxAttempts
        /\ ldAttempts' = n
        /\ ldReads' = IF env \in {"getthrows", "ok"} THEN ldReads + 1 ELSE ldReads
        /\ CASE env \in {"noapis", "invalid"} ->
                   /\ ldPromise' = Resolved("false")
                   /\ ldRetry' = retryCount
                   /\ ldTasks' = tasks
             [] env = "nochrome" -> caught(tasks)
             [] env = "getthrows" -> caught(tasks \cup {timeout})
             [] env = "ok" ->
                   /\ ldRetry' = retryCount
                   /\ ldTasks' = tasks \cup {timeout, callback}
                   /\ UNCHANGED ldPromise

\* config.js:51-157: loadApiKey is called; the executor makes the first attempt
LoadApiKey(env) ==
    /\ ldPc = "start"
    /\ ldPc' = "called"
    /\ TryLoadApiKey(env, ldRetry, ldTasks)
    /\ UNCHANGED <<ldStored, pageVars>>

\* config.js:73-82: the 5 second timeout of an attempt fires
LoadTimeout(t, env) ==
    /\ t \in ldTasks
    /\ t.kind = "timeout"
    /\ IF CanRetry(ldRetry)
       THEN TryLoadApiKey(env, ldRetry + 1, ldTasks \ {t})
       ELSE /\ ldPromise' = Resolved("false")
            /\ ldTasks' = ldTasks \ {t}
            /\ UNCHANGED <<ldRetry, ldAttempts, ldReads>>
    /\ UNCHANGED <<ldStored, ldPc, pageVars>>

\* config.js:92, 113, 123, 133, 148: setTimeout(tryLoadApiKey, 1000) fires
LoadRetry(t, env) ==
    /\ t \in ldTasks
    /\ t.kind = "retry"
    /\ TryLoadApiKey(env, ldRetry, ldTasks \ {t})
    /\ UNCHANGED <<ldStored, ldPc, pageVars>>

\* config.js:84-142: the callback of chrome.storage.sync.get arrives, with
\* chrome.runtime.lastError set or not
LoadCallback(t, lastError) ==
    LET rest == { u \in ldTasks : u # t /\ ~(u.kind = "timeout" /\ u.n = t.n) }
        again ==
            IF CanRetry(ldRetry)
            THEN /\ ldRetry' = ldRetry + 1
                 /\ ldTasks' = rest \cup {[kind |-> "retry", n |-> t.n]}
                 /\ UNCHANGED ldPromise
            ELSE /\ ldRetry' = ldRetry
                 /\ ldTasks' = rest
                 /\ ldPromise' = Resolved("false")
    IN  /\ t \in ldTasks
        /\ t.kind = "callback"
        /\ IF lastError
           THEN again /\ UNCHANGED <<apiKey, apiUrl>>
           ELSE IF ldStored # ""
           THEN /\ apiKey' = updateApiKeyKey(ldStored)
                /\ apiUrl' = updateApiKeyUrl(ldStored)
                /\ IF updateApiKeyOk(ldStored) /\ apiKey' # "" /\ apiKey' = ldStored
                   THEN /\ ldPromise' = Resolved("true")
                        /\ ldTasks' = rest
                        /\ UNCHANGED ldRetry
                   ELSE again
           ELSE /\ ldPromise' = Resolved("false")
                /\ ldTasks' = rest
                /\ UNCHANGED <<ldRetry, apiKey, apiUrl>>
        /\ UNCHANGED <<ldStored, ldPc, ldAttempts, ldReads, now>>

InitLoad ==
    /\ ldStored \in {"", "k1"}
    /\ ldPc = "start"
    /\ ldRetry = 0
    /\ ldAttempts = 0
    /\ ldReads = 0
    /\ ldTasks = {}
    /\ ldPromise = "pending"
    /\ apiKey = ""
    /\ apiUrl = ""
    /\ now = 0
    /\ CacheIdle
    /\ ApiIdle
    /\ DebounceIdle
    /\ StartIdle
    /\ MsgIdle
    /\ ClickIdle
    /\ RaceIdle
    /\ DetailIdle
    /\ ScriptIdle
    /\ EditIdle
    /\ LogoIdle
    /\ ReplaceIdle
    /\ RekeyIdle

restLoad == <<cacheVars, apiVars, dbVars, startVars, msgVars, clickVars, raceVars, detailVars, scriptVars, editVars, logoVars, replaceVars, rekeyVars>>

LoadTimers ==
    \/ \E t \in ldTasks : \E env \in LoadEnvs : LoadTimeout(t, env) /\ UNCHANGED restLoad
    \/ \E t \in ldTasks : \E env \in LoadEnvs : LoadRetry(t, env) /\ UNCHANGED restLoad

NextLoad ==
    \/ \E env \in LoadEnvs : LoadApiKey(env) /\ UNCHANGED restLoad
    \/ LoadTimers
    \/ \E t \in ldTasks : \E e \in BOOLEAN : LoadCallback(t, e) /\ UNCHANGED restLoad

\* loadApiKey is called, and a timer that was set fires; the callback of a
\* storage read need not arrive
SpecLoad ==
    /\ InitLoad
    /\ [][NextLoad]_vars
    /\ WF_vars(\E env \in LoadEnvs : LoadApiKey(env) /\ UNCHANGED restLoad)
    /\ WF_vars(LoadTimers)

\* C9: loadApiKey makes the first storage read and at most 3 retries (at most
\* 4 attempts and 4 reads), however the attempts fail, and its promise is
\* eventually resolved with true or false and is never rejected.
C9_BoundedRetries ==
    /\ [](ldReads <= 4 /\ ldAttempts <= 4 /\ ldRetry <= 3 /\ ldPromise # "rejected")
    /\ <>(ldPromise \in {"true", "false"})

\* the fourth read was made after three failed ones, and the promise resolved
C9_Witness ==
    /\ ldReads = 4
    /\ ldRetry = 3
    /\ ldPromise = "false"
    /\ ldTasks = {}

-----------------------------------------------------------------------------
(* Content script: startExtension, initialize and processEditableElements. *)
(* A host name is the sequence of its labels, <<"x", "github", "com">> for *)
(* x.github.com.                                                            *)

disabledDomains ==
    { <<"docs", "google", "com">>, <<"sheets", "google", "com">>,
      <<"drive", "google", "com">>, <<"mail", "google", "com">>,
      <<"translate", "google", "com">>, <<"github", "com">>,
      <<"gitlab", "com">>, <<"bitbucket", "org">>, <<"atlassian", "net">>,
      <<"discord", "com">>, <<"slack", "com">>, <<"outlook", "live", "com">>,
      <<"outlook", "office", "com">>, <<"outlook", "office365", "com">> }

\* currentHost.endsWith('.' + domain)
EndsWithDot(host, domain) ==
    /\ Len(host) > Len(domain)
    /\ SubSeq(host, Len(host) - Len(domain) + 1, Len(host)) = domain

isDisabledDomain(host) ==
    \E domain \in disabledDomains : host = domain \/ EndsWithDot(host, domain)

Hosts ==
    { <<"example", "com">>, <<"github", "com">>, <<"gist", "github", "com">>,
      <<"github", "com", "example", "org">> }

\* statements of initialize that can throw, all after the scan was called or
\* scheduled: observer.observe(document.body, ...) with no body yet
InitFails == {"none", "observe"}

\* processEditableElements: sets up every editable element that is not set up
processEditableElements(page, setup) == setup \cup page

\* initialize without its try/catch: what it did before it returned or threw
InitializeBody(frame, fail) ==
    [thrown |-> fail # "none",
     value  |-> TRUE,
     scans  |-> IF frame = "top" THEN {"initialize"} ELSE {},
     timers |-> IF frame = "top" THEN {} ELSE {"iframe"}]

\* initialize: catch (error) { ...; return false; }
InitializeCatch(body) ==
    IF body.thrown THEN [body EXCEPT !.thrown = FALSE, !.value = FALSE] ELSE body

initialize(frame, fail) == InitializeCatch(InitializeBody(frame, fail))

\* the branch for a missing key without its scan
WhenNoKeySkip(scans) == scans

\* startExtension: else { console.warn(...); processEditableElements(); }
WhenNoKey(scans) == scans \cup {"noKey"}

\* startExtension: the handlers of loadApiKey().then(...).catch(...), for the
\* promise's outcome: the call sites that scan, and the timers that are set
StartHandlers(outcome, frame, fail) ==
    CASE outcome = "true" ->
            LET r == initialize(frame, fail)
            IN  [scans |-> IF r.thrown THEN r.scans \cup {"initError"} ELSE r.scans,
                 timers |-> r.timers]
      [] outcome = "false" -> [scans |-> WhenNoKey({}), timers |-> {}]
      [] outcome = "rejected" -> [scans |-> {"rejected"}, timers |-> {}]

\* startExtension up to loadApiKey()
StartExtension ==
    /\ stPc = "load"
    /\ stPc' = IF isDisabledDomain(stHost) THEN "disabled" ELSE "awaitKey"
    /\ UNCHANGED <<stHost, stFrame, stFail, stScans, stTimers, stPage, stSetup>>

\* the promise of loadApiKey settles and its handler runs
KeyLoadSettles(outcome) ==
    LET h == StartHandlers(outcome, stFrame, stFail)
    IN  /\ stPc = "awaitKey"
        /\ stPc' = "done"
        /\ stScans' = stScans \cup h.scans
        /\ stTimers' = stTimers \cup h.timers
        /\ stSetup' = IF h.scans # {} THEN processEditableElements(stPage, stSetup)
                      ELSE stSetup
        /\ UNCHANGED <<stHost, stFrame, stFail, stPage>>

\* initialize: setTimeout(processEditableElements, 1000) fires in an iframe
IframeTimer ==
    /\ "iframe" \in stTimers
    /\ stTimers' = stTimers \ {"iframe"}
    /\ stScans' = stScans \cup {"iframeTimer"}
    /\ stSetup' = processEditableElements(stPage, stSetup)
    /\ UNCHANGED <<stHost, stFrame, stFail, stPc, stPage>>

\* the page adds an editable element
AddElement(e) ==
    /\ e \notin stPage
    /\ stPage' = stPage \cup {e}
    /\ UNCHANGED <<stHost, stFrame, stFail, stPc, stScans, stTimers, stSetup>>

InitStart ==
    /\ stHost \in Hosts
    /\ stFrame \in {"top", "iframe"}
    /\ stFail \in InitFails
    /\ stPc = "load"
    /\ stScans = {}
    /\ stTimers = {}
    /\ stPage = {}
    /\ stSetup = {}
    /\ apiKey = ""
    /\ apiUrl = ""
    /\ now = 0
    /\ CacheIdle
    /\ ApiIdle
    /\ DebounceIdle
    /\ LoadIdle
    /\ MsgIdle
    /\ ClickIdle
    /\ RaceIdle
    /\ DetailIdle
    /\ ScriptIdle
    /\ EditIdle
    /\ LogoIdle
    /\ ReplaceIdle
    /\ RekeyIdle

restStart == <<pageVars, cacheVars, apiVars, dbVars, loadVars, msgVars, clickVars, raceVars, detailVars, scriptVars, editVars, logoVars, replaceVars, rekeyVars>>

StartSteps ==
    \/ StartExtension /\ UNCHANGED restStart
    \/ \E outcome \in {"true", "false", "rejected"} :
          KeyLoadSettles(outcome) /\ UNCHANGED restStart
    \/ IframeTimer /\ UNCHANGED restStart

NextStart ==
    \/ StartSteps
    \/ \E e \in 1..MaxElements : AddElement(e) /\ UNCHANGED restStart

\* the script runs, the promise of loadApiKey settles (C9) and timers fire
SpecStart == InitStart /\ [][NextStart]_vars /\ WF_vars(StartSteps)

\* C5: on a domain that is not disabled, whatever the outcome of the key load,
\* startExtension calls processEditableElements: once its handler is done
\* and no timer is pending a scan has run, and that point is reached.
C5_AlwaysScans ==
    /\ []((stPc = "done" /\ stTimers = {}) => stScans # {})
    /\ (stPc = "awaitKey") ~> (stScans # {})

\* the key load resolved false and the page's elements were set up
C5_Witness ==
    /\ stPc = "done"
    /\ stScans = {"noKey"}
    /\ stSetup = stPage
    /\ stPage # {}

-----------------------------------------------------------------------------
(* Content script: the API_KEY_UPDATED message and reinitializeWithNewKey. *)
(* Elements are numbered in document order.                                 *)

\* reinitializeWithNewKey, its try block: the key is installed by
\* updateApiKey, whose result is dropped; then, element by element, the
\* debounced check is called and localStorage is read, which throws at the
\* first element when the page denies access to it
ReinitializeBody(key, enabled, storageOk) ==
    LET first == { e \in enabled : \A f \in enabled : e <= f }
    IN  [thrown    |-> enabled # {} /\ ~storageOk,
         value     |-> TRUE,
         key       |-> updateApiKeyKey(key),
         url       |-> updateApiKeyUrl(key),
         triggered |-> IF storageOk THEN enabled ELSE first]

\* reinitializeWithNewKey: catch (error) { ...; return false; }
ReinitializeCatch(body) ==
    IF body.thrown THEN [body EXCEPT !.thrown = FALSE, !.value = FALSE] ELSE body

reinitializeWithNewKey(key, enabled, storageOk) ==
    ReinitializeCatch(ReinitializeBody(key, enabled, storageOk))

\* the listener's branch for API_KEY_UPDATED: localStorage.setItem for a
\* given activeModel, then reinitializeWithNewKey; catch (msgError) replies
\* success: false
OnApiKeyUpdated(key, activeModel) ==
    LET setItemThrows == activeModel # "" /\ ~msgStorageOk
        r == reinitializeWithNewKey(key, msgEnabled, msgStorageOk)
    IN  /\ apiKey' = IF setItemThrows THEN apiKey ELSE r.key
        /\ apiUrl' = IF setItemThrows THEN apiUrl ELSE r.url
        /\ msgPending' = IF setItemThrows THEN msgPending
                         ELSE msgPending \cup r.triggered
        /\ msgReply' = [sent      |-> TRUE,
                        key       |-> key,
                        success   |-> ~setItemThrows /\ r.value,
                        keyBefore |-> apiKey,
                        urlBefore |-> apiUrl,
                        enabled   |-> msgEnabled,
                        triggered |-> IF setItemThrows THEN {} ELSE r.triggered]
        /\ UNCHANGED <<now, msgStorageOk, msgEnabled>>

\* initGrammarCheck: marks the element and stores its debounced check, which
\* it calls when the element has at least 10 characters of text
InitGrammarCheck(e, hasText) ==
    /\ e \notin msgEnabled
    /\ msgEnabled' = msgEnabled \cup {e}
    /\ msgPending' = IF hasText THEN msgPending \cup {e} ELSE msgPending
    /\ UNCHANGED <<pageVars, msgStorageOk, msgReply>>

\* cleanupElementGrammarCheck: data-grammar-check-enabled = 'false'; a pending
\* timer of the debounced check is not cleared
CleanupElementGrammarCheck(e) ==
    /\ e \in msgEnabled
    /\ msgEnabled' = msgEnabled \ {e}
    /\ UNCHANGED <<pageVars, msgStorageOk, msgPending, msgReply>>

\* the timer of an element's debounced check fires
DebouncedCheckRuns(e) ==
    /\ e \in msgPending
    /\ msgPending' = msgPending \ {e}
    /\ UNCHANGED <<pageVars, msgStorageOk, msgEnabled, msgReply>>

InitMsg ==
    /\ apiKey \in {"", "k1"}
    /\ apiUrl = apiKey
    /\ now = 0
    /\ msgStorageOk \in BOOLEAN
    /\ msgEnabled = {}
    /\ msgPending = {}
    /\ msgReply = NoReply
    /\ CacheIdle
    /\ ApiIdle
    /\ DebounceIdle
    /\ LoadIdle
    /\ StartIdle
    /\ ClickIdle
    /\ RaceIdle
    /\ DetailIdle
    /\ ScriptIdle
    /\ EditIdle
    /\ LogoIdle
    /\ ReplaceIdle
    /\ RekeyIdle

restMsg == <<cacheVars, apiVars, dbVars, loadVars, startVars, clickVars, raceVars, detailVars, scriptVars, editVars, logoVars, replaceVars, rekeyVars>>

NextMsg ==
    \/ \E key \in Keys : \E activeModel \in {"", "gemini"} :
          OnApiKeyUpdated(key, activeModel) /\ UNCHANGED restMsg
    \/ \E e \in 1..MaxElements : \E hasText \in BOOLEAN :
          InitGrammarCheck(e, hasText) /\ UNCHANGED restMsg
    \/ \E e \in 1..MaxElements : CleanupElementGrammarCheck(e) /\ UNCHANGED restMsg
    \/ \E e \in 1..MaxElements : DebouncedCheckRuns(e) /\ UNCHANGED restMsg

SpecMsg == InitMsg /\ [][NextMsg]_vars

\* C10: where localStorage can be used, an API_KEY_UPDATED message installs
\* its key and calls the debounced check of every element marked
\* grammar-check-enabled; the reply says success = true only if the key was
\* installed, and a message with an empty key leaves key and URL as they
\* were and is answered with success = false.
C10_KeyUpdateReply ==
    (msgReply.sent /\ msgStorageOk) =>
        /\ msgReply.key # "" =>
              /\ apiKey = msgReply.key
              /\ apiUrl = msgReply.key
              /\ msgReply.triggered = msgReply.enabled
        /\ msgReply.success => apiKey = msgReply.key
        /\ msgReply.key = "" =>
              /\ apiKey = msgReply.keyBefore
              /\ apiUrl = msgReply.urlBefore
              /\ ~msgReply.success

-----------------------------------------------------------------------------
(* Content script: a click on the logo of an input or textarea.             *)

\* showSuggestionsPopup up to its await, or to its end when it awaits nothing
ShowSuggestionsPopup(click, suggestions, sentenceInfo) ==
    LET shown == [click EXCEPT !.show = suggestions, !.showInfo = sentenceInfo]
    IN  IF ShowsTooShort(suggestions, sentenceInfo)
        THEN /\ ckPopup' = [kind |-> "tooShort", items |-> <<>>,
                            info |-> sentenceInfo, visible |-> TRUE]
             /\ ckClick' = [shown EXCEPT !.done = TRUE]
             /\ ckPc' = "idle"
        ELSE IF AwaitsSentiment(sentenceInfo)
        THEN /\ ckPopup' = [kind |-> "loading", items |-> <<>>,
                            info |-> sentenceInfo, visible |-> TRUE]
             /\ ckClick' = shown
             /\ ckPc' = "sentiment"
        ELSE /\ ckPopup' = RenderPopup(suggestions, sentenceInfo)
             /\ ckClick' = [shown EXCEPT !.done = TRUE]
             /\ ckPc' = "idle"

\* the click handler from the moment getGrammarSuggestions has settled
ClickSettles(click, result) ==
    LET t == ClickCatch(ClickTry(result, click.info), ckText)
        settled == [click EXCEPT !.failed = result.thrown, !.failText = ckText]
    IN  IF t.thrown
        THEN /\ ckClick' = [settled EXCEPT !.escaped = TRUE, !.done = TRUE]
             /\ ckPc' = "idle"
             /\ UNCHANGED ckPopup
        ELSE ShowSuggestionsPopup(settled, t.show, t.showInfo)

\* the listener of the logo's click event, up to its first await
LogoClick ==
    LET contentInfo == getInputContent(ckText)
        click == [NoClick EXCEPT !.clicked = TRUE, !.info = contentInfo]
    IN  /\ ckPc = "idle"
        /\ IF Len(Trim(contentInfo.text)) >= 10
           THEN /\ ckPc' = "key"
                /\ ckClick' = click
                /\ UNCHANGED ckPopup
           ELSE ShowSuggestionsPopup(click, NullSuggestions, contentInfo)
        /\ UNCHANGED <<ckText, pageVars>>

\* getGrammarSuggestions: one poll of getApiKeyWithRetry; with a key the
\* request is sent, after the last poll without one the message is returned
ClickKeyPoll ==
    LET polled == [ckClick EXCEPT !.polls = @ + 1]
    IN  /\ ckPc = "key"
        /\ IF PollKey # ""
           THEN /\ ckPc' = "fetch"
                /\ ckClick' = [polled EXCEPT !.key = PollKey, !.requested = TRUE]
                /\ UNCHANGED ckPopup
           ELSE IF WaitsAfterPoll(polled.polls)
           THEN /\ ckClick' = polled
                /\ UNCHANGED <<ckPc, ckPopup>>
           ELSE ClickSettles(polled, getGrammarSuggestions("", NetError))
        /\ UNCHANGED <<ckText, pageVars>>

\* getGrammarSuggestions: the request settles
ClickFetchDone(resp) ==
    /\ ckPc = "fetch"
    /\ ClickSettles([ckClick EXCEPT !.resp = resp],
                    getGrammarSuggestions(ckClick.key, resp))
    /\ UNCHANGED <<ckText, pageVars>>

\* showSuggestionsPopup: analyzeSentiment has returned
ClickSentimentDone ==
    /\ ckPc = "sentiment"
    /\ ckPopup' = RenderPopup(ckClick.show, ckClick.showInfo)
    /\ ckClick' = [ckClick EXCEPT !.done = TRUE]
    /\ ckPc' = "idle"
    /\ UNCHANGED <<ckText, pageVars>>

\* the click listener of an item of the popup
ChooseItem(i) ==
    /\ ckPopup.kind = "items"
    /\ ckPopup.visible
    /\ i \in DOMAIN ckPopup.items
    /\ ckText' = replaceSentence(ckText, ckPopup.items[i], ckPopup.info).value
    /\ ckPopup' = [ckPopup EXCEPT !.visible = FALSE]
    /\ UNCHANGED <<ckPc, ckClick, pageVars>>

\* the user types
UserEdits(text) ==
    /\ text # ckText
    /\ ckText' = text
    /\ UNCHANGED <<ckPc, ckClick, ckPopup, pageVars>>

\* sample answers to the suggestions prompt
SuggestionAnswers ==
    { Answer(Prose(<<LineOk>>)),
      Answer(Prose(<<LineIntro, LineOk, LineNoSpace, LineLabel>>)),
      Answer(Prose(<<LineIndent, LineBare, LineQuoted, LineOk>>)),
      Answer(Prose(<<LineLabel, LineLabel>>)),
      Answer(Prose(<<LineIntro, LineNoSpace>>)) }

ClickResponses == FailedResponses \cup SuggestionAnswers

InitClick ==
    /\ apiKey \in {"", "k1"}
    /\ apiUrl = apiKey
    /\ now = 0
    /\ ckText \in Texts
    /\ ckPc = "idle"
    /\ ckClick = NoClick
    /\ ckPopup = NoPopup
    /\ CacheIdle
    /\ ApiIdle
    /\ DebounceIdle
    /\ LoadIdle
    /\ StartIdle
    /\ MsgIdle
    /\ RaceIdle
    /\ DetailIdle
    /\ ScriptIdle
    /\ EditIdle
    /\ LogoIdle
    /\ ReplaceIdle
    /\ RekeyIdle

restClick == <<cacheVars, apiVars, dbVars, loadVars, startVars, msgVars, raceVars, detailVars, scriptVars, editVars, logoVars, replaceVars, rekeyVars>>

NextClick ==
    \/ LogoClick /\ UNCHANGED restClick
    \/ ClickKeyPoll /\ UNCHANGED restClick
    \/ \E resp \in ClickResponses : ClickFetchDone(resp) /\ UNCHANGED restClick
    \/ ClickSentimentDone /\ UNCHANGED restClick
    \/ \E i \in DOMAIN ckPopup.items : ChooseItem(i) /\ UNCHANGED restClick
    \/ \E text \in Texts : UserEdits(text) /\ UNCHANGED restClick
    \/ UpdateApiKey("k1") /\ UNCHANGED <<clickVars, restClick>>

SpecClick == InitClick /\ [][NextClick]_vars

\* the lines of the form <number>. <text>: digits, a period, white space
NumberedLines(lines) ==
    SelectSeq(lines, LAMBDA line :
        \E k \in 1..Len(line) :
            /\ \A i \in 1..k : line[i] \in Digits
            /\ Len(line) >= k + 2
            /\ line[k + 1] = "."
            /\ line[k + 2] \in Spaces)

\* C2: for a text of at least 10 characters and with a key, when the answer
\* has N >= 1 lines of the form <number>. <text>, the click ends with a popup
\* of exactly N items, the cleaned-up texts of those lines in the order of
\* the answer; the other lines give no item.
C2_ItemsPerLine ==
    (ckClick.done /\ ckClick.requested /\ ~ckClick.failed) =>
        LET numbered == NumberedLines(ckClick.resp.candidates[1].lines)
        IN  Len(numbered) >= 1 =>
               /\ ckPopup.kind = "items"
               /\ Len(ckPopup.items) = Len(numbered)
               /\ \A i \in DOMAIN numbered : ckPopup.items[i] = CleanLine(numbered[i])

\* an answer of four lines, three of them numbered, gave three items
C2_Witness ==
    /\ ckClick.done
    /\ ckClick.requested
    /\ ckClick.resp = Answer(Prose(<<LineIndent, LineBare, LineQuoted, LineOk>>))
    /\ ckPopup.kind = "items"
    /\ Len(ckPopup.items) = 3
    /\ ckPopup.visible

\* C3 as stated: after a failed suggestion request the error stays inside
\* the click handler and the popup shows 'Unable to generate suggestions'
\* with no item.
C3_UnableMessage ==
    (ckClick.done /\ ckClick.failed) =>
        /\ ~ckClick.escaped
        /\ ckPopup.kind = "unable"
        /\ ckPopup.items = <<>>

\* C3, amended: after a failed suggestion request the error stays inside the
\* click handler and the popup has no item; it shows 'Unable to generate
\* suggestions' when the text read from the element after the failure still
\* has 10 characters, and the request to enter at least 10 characters when
\* it has not; no step of the handler changes the element's text.
C3_FailureContained ==
    /\ []((ckClick.done /\ ckClick.failed) =>
            /\ ~ckClick.escaped
            /\ ckPopup.items = <<>>
            /\ ckPopup.kind = IF TooShort(ckClick.failText) THEN "tooShort" ELSE "unable")
    /\ [][(ckPc' # ckPc \/ ckClick' # ckClick) => ckText' = ckText]_vars

\* an HTTP error status was answered with the message and no item
C3_Witness ==
    /\ ckClick.done
    /\ ckClick.failed
    /\ ckClick.resp = HttpError
    /\ ckPopup.kind = "unable"
    /\ ckPopup.items = <<>>
    /\ ckText = ckClick.failText

\* C4: when no key is available, a click on the logo of an element with at
\* least 10 characters sends no request for suggestions and ends with a
\* popup that offers no item to choose, so that the text cannot be replaced.
C4_NoKeyNoItem ==
    (ckClick.done /\ ckClick.clicked /\ ~TooShort(ckClick.info.text) /\ ckClick.key = "") =>
        /\ ~ckClick.requested
        /\ ckPopup.items = <<>>
        /\ ckText # NoKeyMessage

\* C15: when the logo was clicked on an element whose trimmed text has fewer
\* than 10 characters, the popup the click ends with shows the message that
\* asks for at least 10 characters, not the one for failed suggestions.
C15_TooShortMessage ==
    (ckClick.clicked /\ ckClick.done /\ TooShort(ckClick.info.text))
    => ckPopup.kind = "tooShort"

-----------------------------------------------------------------------------
(* grammarCheck.js: the checks of one element that are in flight together,  *)
(* started by its debounced check or by the re-check after a suggestion was *)
(* applied, and the highlights they leave in the element's container.       *)

\* applyGrammarHighlighting: the highlight of one error, with the error text
\* read from the element's text
Highlight(error, text) ==
    [error |-> Substring(text, error.startPos, error.endPos),
     suggestion |-> error.suggestion,
     startPos |-> error.startPos, endPos |-> error.endPos]

\* applyGrammarHighlighting: the errors whose positions fit the text
Highlights(errors, text) ==
    LET fits(e) == e.startPos >= 0 /\ e.endPos <= Len(text) /\ e.startPos < e.endPos
        kept == SelectSeq(errors, fits)
    IN  [i \in DOMAIN kept |-> Highlight(kept[i], text)]

\* applyGrammarHighlighting: nothing is done for an empty list; else the
\* container is emptied and filled from the element's current text
applyGrammarHighlighting(shown, errors, text) ==
    IF errors = <<>> THEN shown
    ELSE IF text = <<>> THEN <<>>
    ELSE Highlights(errors, text)

\* checkAndReapplyGrammarHighlighting: the then-handler of checkGrammar
ReapplyHighlighting(shown, errors, text) ==
    IF Len(errors) > 0 THEN applyGrammarHighlighting(shown, errors, text) ELSE <<>>

\* what a check does with its errors when checkGrammar has returned
CheckApplies(kind, shown, errors, text) ==
    IF kind = "debounced" THEN applyGrammarHighlighting(shown, errors, text)
    ELSE ReapplyHighlighting(shown, errors, text)

RaceFree == { i \in DOMAIN rcChecks : rcChecks[i].phase = "idle" }
RaceBusy == { i \in DOMAIN rcChecks : rcChecks[i].phase = "fetch" }

\* a check is called: debouncedCheck (it needs a key) or
\* checkAndReapplyGrammarHighlighting; checkGrammar answers from the cache or
\* suspends at the request
RaceStart(kind) ==
    LET text  == rcText
        id    == rcStarted + 1
        entry == grammarCheckCache[text]
        peers == { rcChecks[j].id : j \in RaceBusy }
    IN  /\ rcStarted < MaxChecks
        /\ ~TooShort(text)
        /\ kind = "debounced" => apiKey # ""
        /\ rcStarted' = id
        /\ IF CacheFresh(entry, now)
           THEN /\ rcShown' = CheckApplies(kind, rcShown, entry.errors, rcText)
                /\ rcDone' = rcDone \cup {id}
                /\ rcLast' = [id |-> id, kind |-> kind, errors |-> entry.errors,
                              text |-> rcText, checked |-> text, raced |-> FALSE]
                /\ UNCHANGED rcChecks
           ELSE /\ RaceFree # {}
                /\ rcChecks' = [j \in DOMAIN rcChecks |->
                      IF j = First(RaceFree)
                      THEN [phase |-> "fetch", kind |-> kind, id |-> id,
                            text |-> text, peers |-> peers]
                      ELSE IF j \in RaceBusy
                      THEN [rcChecks[j] EXCEPT !.peers = @ \cup {id}]
                      ELSE rcChecks[j]]
                /\ UNCHANGED <<rcShown, rcDone, rcLast>>
        /\ UNCHANGED <<rcText, grammarCheckCache, inflight, lastCall, lastDone, pageVars>>

\* the request of a suspended check settles: checkGrammar caches and returns
\* the errors, and the check applies them to the element as it is now
RaceDone(i, resp) ==
    LET check  == rcChecks[i]
        body   == checkGrammarTry(checkGrammarWithDetails(check.text, apiKey, resp))
        errors == checkGrammarCatch(body).value
        entry  == [present |-> TRUE, errors |-> errors, timestamp |-> now]
    IN  /\ check.phase = "fetch"
        /\ grammarCheckCache' = IF body.thrown THEN grammarCheckCache
                                ELSE [grammarCheckCache EXCEPT ![check.text] = entry]
        /\ rcShown' = CheckApplies(check.kind, rcShown, errors, rcText)
        /\ rcChecks' = [rcChecks EXCEPT ![i] = NoCheck]
        /\ rcDone' = rcDone \cup {check.id}
        /\ rcLast' = [id |-> check.id, kind |-> check.kind, errors |-> errors,
                      text |-> rcText, checked |-> check.text,
                      raced |-> check.peers \cap rcDone # {}]
        /\ UNCHANGED <<rcText, rcStarted, inflight, lastCall, lastDone, pageVars>>

\* the user types
RaceEdit(text) ==
    /\ text # rcText
    /\ rcText' = text
    /\ UNCHANGED <<rcChecks, rcStarted, rcDone, rcShown, rcLast, cacheVars, pageVars>>

RaceTexts == {TShort, TLongA, TLongB}

RaceResponses ==
    { HttpError,
      Answer(Json(Parsed("list", <<>>))),
      Answer(Json(Parsed("list", <<MWas>>))),
      Answer(Json(Parsed("list", <<MGo, MWas>>))) }

InitRace ==
    /\ apiKey \in {"", "k1"}
    /\ apiUrl = apiKey
    /\ now = 0
    /\ CacheIdle
    /\ rcText \in RaceTexts
    /\ rcChecks = [i \in 1..MaxRace |-> NoCheck]
    /\ rcStarted = 0
    /\ rcDone = {}
    /\ rcShown = <<>>
    /\ rcLast = NoLast
    /\ ApiIdle
    /\ DebounceIdle
    /\ LoadIdle
    /\ StartIdle
    /\ MsgIdle
    /\ ClickIdle
    /\ DetailIdle
    /\ ScriptIdle
    /\ EditIdle
    /\ LogoIdle
    /\ ReplaceIdle
    /\ RekeyIdle

restRace == <<apiVars, dbVars, loadVars, startVars, msgVars, clickVars, detailVars, scriptVars, editVars, logoVars, replaceVars, rekeyVars>>

NextRace ==
    \/ \E kind \in {"debounced", "recheck"} : RaceStart(kind) /\ UNCHANGED restRace
    \/ \E i \in 1..MaxRace : \E resp \in RaceResponses :
          RaceDone(i, resp) /\ UNCHANGED restRace
    \/ \E text \in RaceTexts : RaceEdit(text) /\ UNCHANGED restRace

SpecRace == InitRace /\ [][NextRace]_vars

\* C8: checks of one element that are in flight together are not cancelled,
\* and once they have completed the container shows the highlights of the
\* check that completed last: its errors laid over the text the element had
\* then, whichever of the checks was started first.
C8_LastWriteWins ==
    (RaceBusy = {} /\ rcLast.raced) => rcShown = Highlights(rcLast.errors, rcLast.text)

\* C18: once a check of the element's current text has completed with zero
\* errors, on the debounced path or on the re-check path, the container of
\* the element shows no highlight: those of an earlier check are removed.
C18_ZeroErrorsClear ==
    (/\ rcLast.id # 0
     /\ rcLast.errors = <<>>
     /\ rcLast.checked = rcLast.text)
    => rcShown = <<>>

-----------------------------------------------------------------------------
(* grammarCheck.js: detailed checking of the elements of a page, and the   *)
(* GRAMMAR_SETTINGS_UPDATED message of the content script.                  *)

DetailElements == 1..MaxDetail

DetailTexts == {TShort, TPadded, TLongA}

DetailResponsesUsed ==
    { HttpError,
      Answer(Json(Parsed("list", <<>>))),
      Answer(Json(Parsed("list", <<MWas>>))) }

\* grammarCheck.js:1346-1369: the highlight made for one mistake
DetailHighlight(mistake, text) ==
    [text |-> Substring(text, mistake.start_index, mistake.end_index),
     suggestion |-> mistake.suggestion,
     startIndex |-> mistake.start_index,
     endIndex |-> mistake.end_index]

\* grammarCheck.js:1346-1351: mistakes whose positions do not fit are skipped
DetailFits(mistake, text) ==
    /\ mistake.start_index >= 0
    /\ mistake.end_index <= Len(text)
    /\ mistake.start_index < mistake.end_index

RECURSIVE DetailHighlights(_, _)
DetailHighlights(mistakes, text) ==
    IF mistakes = <<>> THEN <<>>
    ELSE LET rest == DetailHighlights(Tail(mistakes), text) IN
         IF DetailFits(Head(mistakes), text)
         THEN <<DetailHighlight(Head(mistakes), text)>> \o rest
         ELSE rest

\* grammarCheck.js:1273-1420: the container afterwards, given it before
applyDetailedGrammarHighlighting(shown, wordsWithMistakes, text) ==
    IF wordsWithMistakes = <<>> THEN shown
    ELSE IF text = <<>> THEN <<>>
    ELSE DetailHighlights(wordsWithMistakes, text)

\* checkGrammarDetailed testing the length as initDetailedGrammarCheck does
DetailRequestsUntrimmed(text, key) == Len(text) >= 10 /\ key # ""

\* grammarCheck.js:1237-1254: whether checkGrammarDetailed reaches the API
DetailRequests(text, key) == ~TooShort(text) /\ key # ""

\* grammarCheck.js:1235-1271: result.words_with_mistakes
checkGrammarDetailed(text, key, resp) ==
    IF ~DetailRequests(text, key) THEN <<>>
    ELSE checkGrammarWithDetails(text, key, resp).value.wwm

\* grammarCheck.js:1947-1951: text.length < 10, not trimmed
DetailProceeds(e) == Len(dtText[e]) >= 10

\* grammarCheck.js:1910-2004: initDetailedGrammarCheck on each element of S
initDetailedGrammarCheck(S) ==
    LET proceeds == {e \in S : DetailProceeds(e)}
        calls    == {e \in proceeds : apiKey # ""}
    IN  /\ dtShown' = [e \in DetailElements |->
                         IF e \in proceeds THEN <<>> ELSE dtShown[e]]
        /\ dtChecks' = dtChecks \cup
                         {[el |-> e, text |-> dtText[e],
                           requested |-> DetailRequests(dtText[e], apiKey)] :
                          e \in calls}
        /\ dtListeners' = dtListeners \cup calls

\* content script:246-249 (in setupInputElement)
DetailSetup(e) ==
    /\ e \notin dtSetup
    /\ dtSetup' = dtSetup \cup {e}
    /\ IF dtStorageOk /\ dtStored = "true"
       THEN initDetailedGrammarCheck({e})
       ELSE UNCHANGED <<dtShown, dtChecks, dtListeners>>
    /\ UNCHANGED <<dtStorageOk, dtStored, dtLast, dtText, dtTimer, pageVars>>

\* grammarCheck.js:1983-1996: an input or change event; setupDebounce
DetailInput(e, text) ==
    /\ dtText' = [dtText EXCEPT ![e] = text]
    /\ dtTimer' = IF e \in dtListeners THEN dtTimer \cup {e} ELSE dtTimer
    /\ UNCHANGED <<dtStorageOk, dtStored, dtLast, dtSetup, dtListeners, dtChecks,
                   dtShown, pageVars>>

\* grammarCheck.js:1988-1990: the timer of setupDebounce fires
DetailTimer(e) ==
    /\ e \in dtTimer
    /\ dtTimer' = dtTimer \ {e}
    /\ initDetailedGrammarCheck({e})
    /\ UNCHANGED <<dtStorageOk, dtStored, dtLast, dtText, dtSetup, pageVars>>

\* grammarCheck.js:1971-1977: checkGrammarDetailed(text) settles
DetailCheckDone(c, resp) ==
    /\ c \in dtChecks
    /\ dtChecks' = dtChecks \ {c}
    /\ dtShown' = [dtShown EXCEPT ![c.el] =
                     applyDetailedGrammarHighlighting(@,
                         checkGrammarDetailed(c.text, apiKey, resp), dtText[c.el])]
    /\ UNCHANGED <<dtStorageOk, dtStored, dtLast, dtText, dtSetup, dtListeners,
                   dtTimer, pageVars>>

\* content script:99-126: the GRAMMAR_SETTINGS_UPDATED branch of the listener;
\* localStorage.setItem throws where the page denies storage, and the outer
\* catch answers
OnGrammarSettingsUpdated(enabled) ==
    /\ dtLast' = IF enabled THEN "true" ELSE "false"
    /\ IF ~dtStorageOk
       THEN UNCHANGED <<dtStored, dtShown, dtChecks, dtListeners>>
       ELSE /\ dtStored' = IF enabled THEN "true" ELSE "false"
            /\ IF enabled
               THEN initDetailedGrammarCheck(DetailElements)
               ELSE /\ dtShown' = [e \in DetailElements |-> <<>>]
                    /\ UNCHANGED <<dtChecks, dtListeners>>
    /\ UNCHANGED <<dtStorageOk, dtText, dtSetup, dtTimer, pageVars>>

InitDetail ==
    /\ apiKey \in {"", "k1"}
    /\ apiUrl = apiKey
    /\ now = 0
    /\ dtStorageOk \in BOOLEAN
    /\ dtStored \in {"none", "true"}
    /\ dtLast = "none"
    /\ dtText \in [DetailElements -> {TShort, TLongA}]
    /\ dtSetup = {}
    /\ dtListeners = {}
    /\ dtTimer = {}
    /\ dtChecks = {}
    /\ dtShown = [e \in DetailElements |-> <<>>]
    /\ CacheIdle
    /\ ApiIdle
    /\ DebounceIdle
    /\ LoadIdle
    /\ StartIdle
    /\ MsgIdle
    /\ ClickIdle
    /\ RaceIdle
    /\ ScriptIdle
    /\ EditIdle
    /\ LogoIdle
    /\ ReplaceIdle
    /\ RekeyIdle

restDetail == <<cacheVars, apiVars, dbVars, loadVars, startVars, msgVars, clickVars, raceVars, scriptVars, editVars, logoVars, replaceVars, rekeyVars>>

NextDetail ==
    \/ \E e \in DetailElements : DetailSetup(e) /\ UNCHANGED restDetail
    \/ \E e \in DetailElements, text \in DetailTexts :
          DetailInput(e, text) /\ UNCHANGED restDetail
    \/ \E e \in DetailElements : DetailTimer(e) /\ UNCHANGED restDetail
    \/ \E c \in dtChecks, resp \in DetailResponsesUsed :
          DetailCheckDone(c, resp) /\ UNCHANGED restDetail
    \/ \E enabled \in BOOLEAN :
          OnGrammarSettingsUpdated(enabled) /\ UNCHANGED restDetail

SpecDetail == InitDetail /\ [][NextDetail]_vars

\* C11: once a GRAMMAR_SETTINGS_UPDATED message has switched detailed
\* checking off, and until a message switches it on again, the detailed
\* container of every element is empty: the handler empties them and nothing
\* fills them afterwards, whatever input events or pending checks follow.
C11_OffStaysClear ==
    dtLast = "false" => \A e \in DetailElements : dtShown[e] = <<>>

-----------------------------------------------------------------------------
(* manifest.json and the content script as a whole: the browser injects    *)
(* the script unless the URL matches exclude_matches, then the top-level   *)
(* statements run in order: startExtension(), the scan, observer.observe.   *)

\* manifest.json:11-26: exclude_matches; "*." matches the host and its
\* subdomains, a pattern without it the host alone
exclude_matches ==
    { [sub |-> FALSE, host |-> <<"docs", "google", "com">>],
      [sub |-> FALSE, host |-> <<"sheets", "google", "com">>],
      [sub |-> FALSE, host |-> <<"drive", "google", "com">>],
      [sub |-> FALSE, host |-> <<"mail", "google", "com">>],
      [sub |-> FALSE, host |-> <<"translate", "google", "com">>],
      [sub |-> FALSE, host |-> <<"github", "com">>],
      [sub |-> FALSE, host |-> <<"gitlab", "com">>],
      [sub |-> FALSE, host |-> <<"bitbucket", "org">>],
      [sub |-> TRUE,  host |-> <<"atlassian", "net">>],
      [sub |-> FALSE, host |-> <<"discord", "com">>],
      [sub |-> FALSE, host |-> <<"slack", "com">>],
      [sub |-> TRUE,  host |-> <<"outlook", "live", "com">>],
      [sub |-> TRUE,  host |-> <<"outlook", "office", "com">>],
      [sub |-> TRUE,  host |-> <<"outlook", "office365", "com">>] }

Excluded(host) ==
    \E p \in exclude_matches :
        host = p.host \/ (p.sub /\ EndsWithDot(host, p.host))

ScriptHosts == Hosts \cup {<<"team", "atlassian", "net">>}

\* the browser decides whether the content script runs in the frame
Inject ==
    /\ scPc = "inject"
    /\ scPc' = IF Excluded(stHost) THEN "excluded" ELSE "start"
    /\ UNCHANGED <<scObservers, scMutations, startVars>>

\* content script:75: startExtension();
ScriptStart ==
    /\ scPc = "start"
    /\ scPc' = "top"
    /\ StartExtension
    /\ UNCHANGED <<scObservers, scMutations>>

\* content script:1031-1083: the scan (the script runs at document_end, so
\* document.readyState is not 'loading') and observer.observe(document.body)
TopLevel ==
    /\ scPc = "top"
    /\ scPc' = "run"
    /\ stScans' = stScans \cup {"topLevel"}
    /\ stSetup' = processEditableElements(stPage, stSetup)
    /\ scObservers' = scObservers \cup {"top"}
    /\ UNCHANGED <<scMutations, stHost, stFrame, stFail, stPc, stTimers, stPage>>

\* content script:733-751: initialize registers its own observer unless a
\* statement before observer.observe threw
InitializeObserves(fail) == IF fail = "none" THEN {"init"} ELSE {}

\* the promise of loadApiKey settles; initialize runs where it resolved true
ScriptKeyLoadSettles(outcome) ==
    /\ scPc = "run"
    /\ KeyLoadSettles(outcome)
    /\ scObservers' = IF outcome = "true"
                      THEN scObservers \cup InitializeObserves(stFail)
                      ELSE scObservers
    /\ UNCHANGED <<scPc, scMutations>>

\* the page adds an editable element; registered observers are notified
ScriptAddElement(e) ==
    /\ e \notin stPage
    /\ stPage' = stPage \cup {e}
    /\ scMutations' = IF "top" \in scObservers THEN scMutations \cup {e}
                      ELSE scMutations
    /\ stTimers' = IF "init" \in scObservers THEN stTimers \cup {"throttle"}
                   ELSE stTimers
    /\ UNCHANGED <<scPc, scObservers, stHost, stFrame, stFail, stPc, stScans,
                   stSetup>>

\* content script:1038-1080: the callback of the top-level observer
ObserverCallback ==
    LET new == scMutations \ stSetup
        r   == initialize(stFrame, stFail)
    IN  /\ scMutations # {}
        /\ scMutations' = {}
        /\ IF new = {}
           THEN UNCHANGED <<stSetup, stScans, stTimers, scObservers>>
           ELSE /\ stScans' = stScans \cup {"observer"} \cup r.scans
                /\ stTimers' = stTimers \cup r.timers
                /\ stSetup' = IF r.scans # {}
                              THEN processEditableElements(stPage, stSetup \cup new)
                              ELSE stSetup \cup new
                /\ scObservers' = scObservers \cup InitializeObserves(stFail)
        /\ UNCHANGED <<scPc, stHost, stFrame, stFail, stPc, stPage>>

\* content script:735-744: the throttle timer of initialize's observer
ThrottleTimer ==
    /\ "throttle" \in stTimers
    /\ stTimers' = stTimers \ {"throttle"}
    /\ stScans' = stScans \cup {"throttle"}
    /\ stSetup' = processEditableElements(stPage, stSetup)
    /\ UNCHANGED <<scriptVars, stHost, stFrame, stFail, stPc, stPage>>

InitScript ==
    /\ stHost \in ScriptHosts
    /\ stFrame \in {"top", "iframe"}
    /\ stFail \in InitFails
    /\ stPc = "load"
    /\ stScans = {}
    /\ stTimers = {}
    /\ stPage \in {{}, {1}}
    /\ stSetup = {}
    /\ scPc = "inject"
    /\ scObservers = {}
    /\ scMutations = {}
    /\ apiKey = ""
    /\ apiUrl = ""
    /\ now = 0
    /\ CacheIdle
    /\ ApiIdle
    /\ DebounceIdle
    /\ LoadIdle
    /\ MsgIdle
    /\ ClickIdle
    /\ RaceIdle
    /\ DetailIdle
    /\ EditIdle
    /\ LogoIdle
    /\ ReplaceIdle
    /\ RekeyIdle

restScript == <<pageVars, cacheVars, apiVars, dbVars, loadVars, msgVars, clickVars, raceVars, detailVars, editVars, logoVars, replaceVars, rekeyVars>>

NextScript ==
    \/ Inject /\ UNCHANGED restScript
    \/ ScriptStart /\ UNCHANGED restScript
    \/ TopLevel /\ UNCHANGED restScript
    \/ \E outcome \in {"true", "false", "rejected"} :
          ScriptKeyLoadSettles(outcome) /\ UNCHANGED restScript
    \/ IframeTimer /\ UNCHANGED <<scriptVars, restScript>>
    \/ ThrottleTimer /\ UNCHANGED restScript
    \/ \E e \in 1..MaxElements : ScriptAddElement(e) /\ UNCHANGED restScript
    \/ ObserverCallback /\ UNCHANGED restScript

SpecScript == InitScript /\ [][NextScript]_vars

\* C12: on a host that is a disabled domain or a subdomain of one, no
\* element is ever set up (setupInputElement marks none with helperSetup),
\* neither at load nor after DOM mutations.
C12_DisabledNoSetup == isDisabledDomain(stHost) => stSetup = {}

-----------------------------------------------------------------------------
(* grammarCheck.js: applySuggestion and the Apply button of a highlight;   *)
(* dom.js: replaceSentence on a contenteditable element.  The element is   *)
(* the sequence of the values of its text nodes, in document order.        *)

RECURSIVE TextContent(_)
TextContent(nodes) ==
    IF nodes = <<>> THEN <<>> ELSE Head(nodes) \o TextContent(Tail(nodes))

\* what findTextNodeAtPosition returns: null or an object {node, offset};
\* node is the index of the text node, 0 for null
NullNode == [kind |-> "null", node |-> 0, offset |-> 0]
NodeInfo(node, offset) == [kind |-> "object", node |-> node, offset |-> offset]

\* grammarCheck.js:38: !node.nodeValue || node.nodeValue.trim() === ''
BlankNode(value) == Trim(value) = <<>>

\* grammarCheck.js:36-52: the loop over the text nodes, from node i on
RECURSIVE WalkTextNodes(_, _, _, _)
WalkTextNodes(nodes, i, currentLength, position) ==
    IF i > Len(nodes)
    THEN IF currentLength > 0 THEN NodeInfo(0, 0) ELSE NullNode
    ELSE IF BlankNode(nodes[i])
    THEN WalkTextNodes(nodes, i + 1, currentLength, position)
    ELSE IF currentLength <= position /\ position < currentLength + Len(nodes[i])
    THEN NodeInfo(i, position - currentLength)
    ELSE WalkTextNodes(nodes, i + 1, currentLength + Len(nodes[i]), position)

\* grammarCheck.js:15-71
findTextNodeAtPosition(nodes, position) ==
    IF position < 0 THEN NullNode ELSE WalkTextNodes(nodes, 1, 0, position)

\* grammarCheck.js:826, dom.js:323: textNode && textNode.nodeType ===
\* Node.TEXT_NODE, of the value findTextNodeAtPosition returned
IsTextNode(textNode) == textNode.kind = "text"

\* grammarCheck.js:74-99: the lengths of the non-blank text nodes before node i
RECURSIVE getTextNodePosition(_, _)
getTextNodePosition(nodes, i) ==
    IF i <= 1 THEN 0
    ELSE getTextNodePosition(nodes, i - 1) +
         (IF BlankNode(nodes[i - 1]) THEN 0 ELSE Len(nodes[i - 1]))

Replaced(path, nodes) == [result |-> TRUE, path |-> path, nodes |-> nodes]
NotReplaced(nodes) == [result |-> FALSE, path |-> "none", nodes |-> nodes]

\* element.textContent = before + suggestion + after: one text node is left
SetTextContent(text, suggestion, startPos, endPos) ==
    Replaced("textContent",
             <<Substring(text, 0, startPos) \o suggestion
               \o Substring(text, endPos, Len(text))>>)

\* selection on one text node, then document.execCommand('insertText')
InsertText(nodes, i, suggestion, relativeStart, relativeEnd) ==
    Replaced("insertText",
             [nodes EXCEPT ![i] = Substring(@, 0, relativeStart) \o suggestion
                                  \o Substring(@, relativeEnd, Len(@))])

\* grammarCheck.js:819-873: applySuggestion on a contenteditable element
ApplyContentEditable(nodes, suggestion, startPos, endPos) ==
    LET text == TextContent(nodes)
        textNode == findTextNodeAtPosition(nodes, startPos)
        i == textNode.node
        textNodeStartPos == getTextNodePosition(nodes, i)
        relativeStart == Max(0, Min(startPos - textNodeStartPos, Len(nodes[i])))
        relativeEnd == Max(relativeStart, Min(endPos - textNodeStartPos, Len(nodes[i])))
        safeStart == Max(0, Min(startPos, Len(text)))
        safeEnd == Max(safeStart, Min(endPos, Len(text)))
    IN  IF IsTextNode(textNode)
        THEN IF relativeEnd = relativeStart
             THEN SetTextContent(text, suggestion, safeStart, safeEnd)
             ELSE InsertText(nodes, i, suggestion, relativeStart, relativeEnd)
        ELSE SetTextContent(text, suggestion, safeStart, safeEnd)

\* dom.js:315-351: replaceSentence on a contenteditable element, for the
\* range r it settled on
ReplaceContentEditable(nodes, trimmedSuggestion, r) ==
    LET text == TextContent(nodes)
        textNode == findTextNodeAtPosition(nodes, r.startPos)
        i == textNode.node
        textNodeStartPos == getTextNodePosition(nodes, i)
        relativeStart == r.startPos - textNodeStartPos
        relativeEnd == r.endPos - textNodeStartPos
    IN  IF IsTextNode(textNode) /\ relativeStart >= 0 /\ relativeEnd <= Len(nodes[i])
        THEN InsertText(nodes, i, trimmedSuggestion, relativeStart, relativeEnd)
        ELSE SetTextContent(text, trimmedSuggestion, r.startPos, r.endPos)

\* dom.js:96-393: replaceSentence on a contenteditable element
replaceSentenceIn(nodes, suggestion, sentenceInfo) ==
    LET text == TextContent(nodes)
        r == ReplaceRange(text, suggestion, sentenceInfo)
    IN  IF ~r.ok \/ r.startPos < 0 \/ r.endPos > Len(text) \/ r.startPos >= r.endPos
        THEN NotReplaced(nodes) @@ [startPos |-> 0, endPos |-> 0]
        ELSE ReplaceContentEditable(nodes, Trim(suggestion), r)
             @@ [startPos |-> r.startPos, endPos |-> r.endPos]

\* clearGrammarHighlightsForRange removing nothing
clearGrammarHighlightsNone(highlights, startPos, endPos) == highlights

\* grammarCheck.js:930-951: the highlights that do not overlap the range
clearGrammarHighlightsForRange(highlights, startPos, endPos) ==
    LET overlaps(h) == \/ h.startPos <= endPos /\ h.endPos >= startPos
                       \/ startPos <= h.endPos /\ endPos >= h.startPos
        stays(h) == ~overlaps(h)
    IN  SelectSeq(highlights, stays)

\* grammarCheck.js:782-928: applySuggestion; the result carries the text
\* nodes and the highlights of the element as the function leaves them
applySuggestion(isConnected, kind, nodes, highlights, suggestion, startPos, endPos) ==
    LET fullText == TextContent(nodes)
        cleared == clearGrammarHighlightsForRange(highlights, startPos, endPos)
        unchanged == NotReplaced(nodes) @@ [highlights |-> highlights]
    IN  IF ~isConnected THEN unchanged
        ELSE IF fullText = <<>> THEN unchanged
        ELSE IF startPos < 0 \/ endPos > Len(fullText) \/ startPos >= endPos
        THEN unchanged
        ELSE IF kind = "contenteditable"
        THEN ApplyContentEditable(nodes, suggestion, startPos, endPos)
             @@ [highlights |-> cleared]
        ELSE Replaced("value", <<Substring(fullText, 0, startPos) \o suggestion
                                 \o Substring(fullText, endPos, Len(fullText))>>)
             @@ [highlights |-> cleared]

\* the sequence without its element k (highlight.remove())
RemoveAt(seq, k) == [j \in 1..(Len(seq) - 1) |-> IF j < k THEN seq[j] ELSE seq[j + 1]]

TThey == <<"T", "h", "e", "y", " ">>
TWasOk == <<"w", "a", "s", " ", "o", "k">>
TOh == <<"O", "h", " ">>

\* sample elements: one node, two nodes, a node boundary inside "was", a
\* blank node first, a longer text
EditDoms ==
    { <<TLongA>>, <<TThey, TWasOk>>, <<TThey \o <<"w", "a">>, <<"s", " ", "o", "k">>>>,
      <<<<" ">>, TLongA>>, <<TOh \o TLongA>> }

EditInputs == { <<TLongA>>, <<TOh \o TLongA>>, <<TShort>>, <<<<>>>> }

EditTexts(kind) == IF kind = "contenteditable" THEN EditDoms ELSE EditInputs

ErrThey == [error |-> <<"T", "h", "e", "y">>, suggestion |-> <<"W", "e">>,
            type |-> "grammar", startPos |-> 0, endPos |-> 4]
ErrWas  == [error |-> <<"w", "a", "s">>, suggestion |-> <<"w", "e", "r", "e">>,
            type |-> "grammar", startPos |-> 5, endPos |-> 8]

EditErrors == { <<>>, <<ErrWas>>, <<ErrThey, ErrWas>> }

\* applyGrammarHighlighting after a check of the current text
EditCheckDone(errors) ==
    /\ edLast.n < MaxEdits
    /\ edHighlights' = applyGrammarHighlighting(edHighlights, errors, TextContent(edNodes))
    /\ UNCHANGED <<edKind, edNodes, edLast>>

\* the user types in the element
EditUser(nodes) ==
    /\ edLast.n < MaxEdits
    /\ nodes # edNodes
    /\ edNodes' = nodes
    /\ UNCHANGED <<edKind, edHighlights, edLast>>

\* grammarCheck.js:725-745: the Apply button of the popup of highlight k
ApplyClick(k, isConnected) ==
    LET h == edHighlights[k]
        r == applySuggestion(isConnected, edKind, edNodes, edHighlights,
                             h.suggestion, h.startPos, h.endPos)
    IN  /\ edLast.n < MaxEdits
        /\ edNodes' = r.nodes
        /\ edHighlights' = IF r.highlights = edHighlights
                           THEN RemoveAt(edHighlights, k) ELSE r.highlights
        /\ edLast' = [fn |-> "applySuggestion", kind |-> edKind, before |-> edNodes,
                      after |-> r.nodes, startPos |-> h.startPos, endPos |-> h.endPos,
                      error |-> h.error, suggestion |-> h.suggestion,
                      path |-> r.path, result |-> r.result, n |-> edLast.n + 1,
                      isConnected |-> isConnected, hlBefore |-> edHighlights,
                      hlAfter |-> r.highlights]
        /\ UNCHANGED edKind

\* ui.js: a click on an item of the suggestions popup of a contenteditable
ReplaceClick(suggestion, sentenceInfo) ==
    /\ edKind = "contenteditable"
    /\ edLast.n < MaxEdits
    /\ \E r \in {replaceSentenceIn(edNodes, suggestion, sentenceInfo)} :
        /\ edNodes' = r.nodes
        /\ edLast' = [fn |-> "replaceSentence", kind |-> edKind, before |-> edNodes,
                      after |-> r.nodes, startPos |-> r.startPos, endPos |-> r.endPos,
                      error |-> sentenceInfo.text, suggestion |-> suggestion,
                      path |-> r.path, result |-> r.result, n |-> edLast.n + 1,
                      isConnected |-> TRUE, hlBefore |-> edHighlights,
                      hlAfter |-> edHighlights]
        /\ UNCHANGED <<edKind, edHighlights>>

SentenceInfos ==
    { [text |-> <<"w", "a", "s">>, startPos |-> 5, endPos |-> 8],
      [text |-> TLongA, startPos |-> 0, endPos |-> 11] }

EditSuggestions == { <<"w", "e", "r", "e">>, <<"W", "e", " ", "a", "r", "e", " ", "o", "k">> }

InitEdit ==
    /\ edKind \in {"contenteditable", "input"}
    /\ edNodes \in EditTexts(edKind)
    /\ edHighlights = <<>>
    /\ edLast = NoApply
    /\ apiKey = "k1"
    /\ apiUrl = "k1"
    /\ now = 0
    /\ CacheIdle
    /\ ApiIdle
    /\ DebounceIdle
    /\ LoadIdle
    /\ StartIdle
    /\ MsgIdle
    /\ ClickIdle
    /\ RaceIdle
    /\ DetailIdle
    /\ ScriptIdle
    /\ LogoIdle
    /\ ReplaceIdle
    /\ RekeyIdle

restEdit == <<pageVars, cacheVars, apiVars, dbVars, loadVars, startVars, msgVars, clickVars, raceVars, detailVars, scriptVars, logoVars, replaceVars, rekeyVars>>

NextEdit ==
    \/ \E errors \in EditErrors : EditCheckDone(errors) /\ UNCHANGED restEdit
    \/ \E nodes \in EditTexts(edKind) : EditUser(nodes) /\ UNCHANGED restEdit
    \/ \E k \in DOMAIN edHighlights, isConnected \in BOOLEAN :
          ApplyClick(k, isConnected) /\ UNCHANGED restEdit
    \/ \E suggestion \in EditSuggestions, sentenceInfo \in SentenceInfos :
          ReplaceClick(suggestion, sentenceInfo) /\ UNCHANGED restEdit

SpecEdit == InitEdit /\ [][NextEdit]_vars

\* offset in textContent of the text node i
RECURSIVE NodeStart(_, _)
NodeStart(nodes, i) ==
    IF i <= 1 THEN 0 ELSE NodeStart(nodes, i - 1) + Len(nodes[i - 1])

SpanInOneNode(nodes, startPos, endPos) ==
    \E i \in DOMAIN nodes :
        /\ NodeStart(nodes, i) <= startPos
        /\ endPos <= NodeStart(nodes, i) + Len(nodes[i])

\* C13: when applySuggestion or replaceSentence replaces a span of a
\* contenteditable element that lies inside one text node, it does so by a
\* selection and the insertText command; the whole textContent is
\* overwritten only where the span does not lie inside one text node.
C13_InsertTextPath ==
    (/\ edLast.kind = "contenteditable"
     /\ edLast.result
     /\ SpanInOneNode(edLast.before, edLast.startPos, edLast.endPos))
    => edLast.path = "insertText"

\* C19: whenever the Apply button of a highlight changes the element's text,
\* the substring that applySuggestion replaces equals the error text recorded
\* on the highlight when it was created, also after the user has edited the
\* text or another suggestion of a different length has been applied.
C19_ReplacesRecordedError ==
    (/\ edLast.fn = "applySuggestion"
     /\ edLast.result
     /\ TextContent(edLast.after) # TextContent(edLast.before))
    => Substring(TextContent(edLast.before), edLast.startPos, edLast.endPos) = edLast.error

\* the positions handed to applySuggestion do not fit the text it found
BadPositions ==
    \/ edLast.startPos < 0
    \/ edLast.startPos >= edLast.endPos
    \/ edLast.endPos > Len(TextContent(edLast.before))

Refused ==
    \/ ~edLast.isConnected
    \/ TextContent(edLast.before) = <<>>
    \/ BadPositions

\* the highlight shares at least one character with the replaced range
Overlaps(h) == h.startPos < edLast.endPos /\ edLast.startPos < h.endPos

\* C22: applySuggestion returns false and leaves the element's text and its
\* highlights unchanged when the element is disconnected, its text is empty
\* or the positions do not satisfy 0 <= startPos < endPos <= text length;
\* otherwise, for an input or textarea, the new value is the text before
\* startPos, the suggestion and the text from endPos on, the highlights
\* overlapping the range are removed and it returns true.
C22_ApplySuggestionFrame ==
    edLast.fn = "applySuggestion" =>
        LET text == TextContent(edLast.before) IN
        /\ Refused =>
              /\ ~edLast.result
              /\ edLast.after = edLast.before
              /\ edLast.hlAfter = edLast.hlBefore
        /\ (~Refused /\ edLast.kind = "input") =>
              /\ edLast.result
              /\ edLast.after = <<SubSeq(text, 1, edLast.startPos) \o edLast.suggestion
                                  \o SubSeq(text, edLast.endPos + 1, Len(text))>>
              /\ \A i \in DOMAIN edLast.hlAfter : ~Overlaps(edLast.hlAfter[i])
              /\ \A i \in DOMAIN edLast.hlAfter :
                    \E j \in DOMAIN edLast.hlBefore :
                       edLast.hlAfter[i] = edLast.hlBefore[j]

\* a suggestion was applied to an input with two highlights, one of which
\* lay outside the replaced range
C22_Witness ==
    /\ edLast.fn = "applySuggestion"
    /\ edLast.kind = "input"
    /\ ~Refused
    /\ Len(edLast.hlBefore) = 2
    /\ Len(edLast.hlAfter) = 1

\* applySuggestion was called on an input whose text had been shortened
C22_WitnessRefused ==
    /\ edLast.fn = "applySuggestion"
    /\ edLast.isConnected
    /\ BadPositions
    /\ edLast.hlBefore # <<>>

-----------------------------------------------------------------------------
(* Content script and ui.js: setupInputElement, createLogoElement and the  *)
(* click listeners of the logos, for the editable elements of one page.     *)

LogoElements == 1..MaxLogos

\* the logos that exist: 1..lgCount
Logos == 1..MaxLogos

\* ui.js:584-588: document.querySelector('.text-helper-logo') finds the
\* first logo in the document; a new one is created only if there is none
createLogoElement ==
    IF lgAttached # <<>> THEN Head(lgAttached) ELSE lgCount + 1

\* content script:147-254: setupInputElement up to the logo it works with
LogoSetup(e) ==
    /\ lgLogo[e] = 0
    /\ lgLogo' = [lgLogo EXCEPT ![e] = createLogoElement]
    /\ lgCount' = Max(lgCount, createLogoElement)
    /\ UNCHANGED <<lgText, lgAttached, lgShownFor, lgLast>>

\* ui.js:1082-1110 (positionLogo): the logo is moved into its container,
\* which is appended to document.body when it is created
positionLogo(attached, logo) ==
    IF \E i \in DOMAIN attached : attached[i] = logo THEN attached
    ELSE Append(attached, logo)

\* content script:270-290, 363: the element gets the focus and showLogo runs
LogoFocus(e) ==
    /\ lgLogo[e] # 0
    /\ lgAttached' = positionLogo(lgAttached, lgLogo[e])
    /\ lgShownFor' = [lgShownFor EXCEPT ![lgLogo[e]] = e]
    /\ UNCHANGED <<lgText, lgLogo, lgCount, lgLast>>

\* the elements whose setupInputElement added a click listener to the logo
Listeners(logo) == {e \in LogoElements : lgLogo[e] = logo}

\* content script:414-447: every click listener of the logo runs; each reads
\* its own element and requests suggestions if the text is long enough, and
\* each shows the popup for its element
LogoClicked(logo) ==
    /\ \E i \in DOMAIN lgAttached : lgAttached[i] = logo
    /\ lgLast' = [clicked |-> TRUE, logo |-> logo, for |-> lgShownFor[logo],
                  requests |-> {e \in Listeners(logo) : ~TooShort(lgText[e])},
                  popups |-> Listeners(logo)]
    /\ UNCHANGED <<lgText, lgLogo, lgCount, lgAttached, lgShownFor>>

\* the user types in an element
LogoInput(e, text) ==
    /\ lgText[e] # text
    /\ lgText' = [lgText EXCEPT ![e] = text]
    /\ UNCHANGED <<lgLogo, lgCount, lgAttached, lgShownFor, lgLast>>

InitLogo ==
    /\ lgText \in [LogoElements -> {TShort, TLongA}]
    /\ lgLogo = [e \in LogoElements |-> 0]
    /\ lgCount = 0
    /\ lgAttached = <<>>
    /\ lgShownFor = [l \in Logos |-> 0]
    /\ lgLast = NoLogoClick
    /\ apiKey = "k1"
    /\ apiUrl = "k1"
    /\ now = 0
    /\ CacheIdle
    /\ ApiIdle
    /\ DebounceIdle
    /\ LoadIdle
    /\ StartIdle
    /\ MsgIdle
    /\ ClickIdle
    /\ RaceIdle
    /\ DetailIdle
    /\ ScriptIdle
    /\ EditIdle
    /\ ReplaceIdle
    /\ RekeyIdle

restLogo == <<pageVars, cacheVars, apiVars, dbVars, loadVars, startVars, msgVars, clickVars, raceVars, detailVars, scriptVars, editVars, replaceVars, rekeyVars>>

NextLogo ==
    \/ \E e \in LogoElements : LogoSetup(e) /\ UNCHANGED restLogo
    \/ \E e \in LogoElements : LogoFocus(e) /\ UNCHANGED restLogo
    \/ \E logo \in Logos : LogoClicked(logo) /\ UNCHANGED restLogo
    \/ \E e \in LogoElements, text \in {TShort, TLongA, TLongB} :
          LogoInput(e, text) /\ UNCHANGED restLogo

SpecLogo == InitLogo /\ [][NextLogo]_vars

\* C14: every element that is set up has a logo of its own, and a click on
\* the logo shown for an element requests suggestions for that element
\* alone (once, its text being long enough) and shows the popup for that
\* element alone.
C14_OwnLogo ==
    /\ \A e1, e2 \in LogoElements :
          (e1 # e2 /\ lgLogo[e1] # 0) => lgLogo[e1] # lgLogo[e2]
    /\ lgLast.clicked =>
          /\ lgLast.popups = {lgLast.for}
          /\ lgLast.requests \subseteq {lgLast.for}

-----------------------------------------------------------------------------
(* Every path that sends a text to the API: the logo click (suggestions    *)
(* and sentiment), the debounced check and the re-check (checkGrammar),    *)
(* and the detailed check.  One element is followed on one of the paths.    *)

ClickActive  == ckText # <<>>
RaceActive   == rcText # <<>>
DetailActive == dtText # <<>>

InitPaths == InitClick \/ InitRace \/ InitDetail

NextPaths ==
    \/ ClickActive /\ NextClick
    \/ RaceActive /\ NextRace
    \/ DetailActive /\ NextDetail

SpecPaths == InitPaths /\ [][NextPaths]_vars

\* C16: no request is in flight, or was sent, for a text with fewer than 10
\* characters after trimming: neither the suggestions request nor the
\* sentiment request of a logo click, nor the request of a debounced check
\* or a re-check, nor that of a detailed check.
C16_NoShortRequest ==
    /\ ckClick.requested => ~TooShort(ckClick.info.text)
    /\ ckPc = "sentiment" => ~TooShort(ckClick.showInfo.text)
    /\ \A i \in DOMAIN rcChecks :
          rcChecks[i].phase = "fetch" => ~TooShort(rcChecks[i].text)
    /\ \A c \in dtChecks : c.requested => ~TooShort(c.text)

\* a detailed check ran on a text of 13 characters, 9 after trimming, and
\* sent nothing
C16_Witness ==
    \E c \in dtChecks : Len(c.text) >= 10 /\ TooShort(c.text) /\ ~c.requested

-----------------------------------------------------------------------------
(* checkGrammar on answers whose mistakes carry arbitrary integer indices *)

MaxSlack == 2

IndexTexts == { t \in Texts : Len(t) >= 10 }

\* start_index and end_index of an answer: from below 0 to beyond the text
Indices(text) == (0 - MaxSlack)..(Len(text) + MaxSlack)

\* texts of a mistake: empty, in TLongA, in TLongB, with a blank, in no text
MistakeTexts ==
    { <<>>, <<"w", "a", "s">>, <<"g", "o">>, <<" ", "o", "k">>, <<"z", "z">> }

IndexAnswer(mistakeText, start, end) ==
    Answer(Json(Parsed("list",
        <<Mistake(Str(mistakeText), Str(<<"w", "e", "r", "e">>), start, end)>>)))

InitIndices ==
    /\ \E text \in IndexTexts : \E mt \in MistakeTexts :
          \E start \in Indices(text) : \E end \in Indices(text) :
             apiIn = [text |-> text, key |-> "k1", resp |-> IndexAnswer(mt, start, end)]
    /\ apiOut = NoOutput
    /\ apiKey = apiIn.key
    /\ apiUrl = apiIn.key
    /\ now = 0
    /\ CacheIdle
    /\ DebounceIdle
    /\ LoadIdle
    /\ StartIdle
    /\ MsgIdle
    /\ ClickIdle
    /\ RaceIdle
    /\ DetailIdle
    /\ ScriptIdle
    /\ EditIdle
    /\ LogoIdle
    /\ ReplaceIdle
    /\ RekeyIdle

NextIndices ==
    \/ ApplyDetails /\ UNCHANGED restApi
    \/ ApplyCheckGrammar /\ UNCHANGED restApi

SpecIndices == InitIndices /\ [][NextIndices]_vars

\* the one mistake of the answer, as the API sent it
SentMistake == apiIn.resp.candidates[1].value.wwm[1]

InText(startPos, endPos) ==
    0 <= startPos /\ startPos < endPos /\ endPos <= Len(apiIn.text)

\* C20: for a text of at least 10 characters and any integer start_index and
\* end_index in the answer, every error returned by checkGrammar has
\* 0 <= startPos < endPos <= text.length; a mistake that cannot be brought
\* into this form is dropped, so that the result then is empty.
C20_ErrorsInText ==
    "check" \in apiOut.done =>
        /\ ~apiOut.check.thrown
        /\ Len(apiOut.check.value) <= 1
        /\ \A i \in DOMAIN apiOut.check.value :
              InText(apiOut.check.value[i].startPos, apiOut.check.value[i].endPos)

\* an error is returned for a mistake whose indices lay outside the text
C20_Witness ==
    /\ "check" \in apiOut.done
    /\ Len(apiOut.check.value) = 1
    /\ SentMistake.start_index < 0
    /\ SentMistake.end_index > Len(apiIn.text)

\* a mistake is dropped: its empty text is looked up and found at 0..0
C20_WitnessDropped ==
    /\ "check" \in apiOut.done
    /\ ~TooShort(apiIn.text)
    /\ apiOut.check.value = <<>>
    /\ SentMistake.text.s = <<>>

\* the mistake of the answer as checkGrammarWithDetails returns it
FixedMistake == apiOut.details.value.wwm[1]

Occurs == IndexOf(apiIn.text, SentMistake.text.s) # -1

\* the indices of the answer lie in the text and its text is not there
SentMismatch ==
    /\ 0 <= SentMistake.start_index
    /\ SentMistake.start_index < SentMistake.end_index
    /\ SentMistake.end_index <= Len(apiIn.text)
    /\ Trim(Substring(apiIn.text, SentMistake.start_index, SentMistake.end_index))
          # Trim(SentMistake.text.s)

\* C21: after the index validation of checkGrammarWithDetails, for a returned
\* mistake whose text occurs in the input text, the substring of the text
\* between start_index and end_index, trimmed, equals the mistake's text,
\* trimmed; indices that do not match are moved to the first occurrence of
\* the mistake's text.
C21_IndicesMatchText ==
    ("details" \in apiOut.done /\ Occurs) =>
        /\ Len(apiOut.details.value.wwm) = 1
        /\ Trim(Substring(apiIn.text, FixedMistake.start_index, FixedMistake.end_index))
              = Trim(SentMistake.text.s)
        /\ SentMismatch =>
              /\ FixedMistake.start_index = IndexOf(apiIn.text, SentMistake.text.s)
              /\ FixedMistake.end_index =
                    FixedMistake.start_index + Len(SentMistake.text.s)

\* a mistake whose indices pointed at other words has been moved
C21_Witness ==
    /\ "details" \in apiOut.done
    /\ Occurs
    /\ SentMismatch
    /\ SentMistake.text.s # <<>>
    /\ FixedMistake.start_index # SentMistake.start_index

-----------------------------------------------------------------------------
(* dom.js: replaceSentence on an input or textarea, called by the items of *)
(* the suggestions popup with the content info of the logo click           *)

MaxReplace == 2

TWere  == <<"T", "h", "e", "y", " ", "w", "e", "r", "e", " ", "o", "k">>
TOkay  == TLongA \o <<"a", "y">>
TWeAre == <<" ", "W", "e", " ", "a", "r", "e", " ", "o", "k", " ">>

\* values of the field: bare, with blanks around it, with a word before it,
\* sharing only its first word with TLongA, sharing nothing with it
ReplaceValues ==
    { TLongA, <<" ", " ">> \o TLongA \o <<" ">>, TOh \o TLongA,
      <<"T", "h", "e", "y", " ", "g", "o">>, <<"N", "o", "p", "e">> }

ReplaceSuggestions == { TWere, TOkay, TWeAre }

\* the click on the logo: getInputContent of the field
Capture ==
    /\ rpLast.n < MaxReplace
    /\ rpInfo' = getInputContent(rpValue)
    /\ rpCaptured' = rpValue
    /\ UNCHANGED <<rpValue, rpLast>>

\* the user types
ReplaceEdit(value) ==
    /\ rpLast.n < MaxReplace
    /\ value # rpValue
    /\ rpValue' = value
    /\ UNCHANGED <<rpInfo, rpCaptured, rpLast>>

\* the click on an item of the popup: replaceSentence with the captured info
Choose(suggestion) ==
    /\ rpLast.n < MaxReplace
    /\ rpInfo.text # <<>>
    /\ \E r \in {replaceSentence(rpValue, suggestion, rpInfo)} :
        /\ rpValue' = r.value
        /\ rpLast' = [before |-> rpValue, after |-> r.value, result |-> r.result,
                      suggestion |-> suggestion, info |-> rpInfo,
                      captured |-> rpCaptured,
                      again |-> /\ rpLast.n > 0
                                /\ rpLast.result
                                /\ rpLast.suggestion = suggestion
                                /\ rpLast.info = rpInfo
                                /\ rpLast.after = rpValue,
                      n |-> rpLast.n + 1]
    /\ UNCHANGED <<rpInfo, rpCaptured>>

InitReplace ==
    /\ rpValue \in ReplaceValues
    /\ rpInfo = NoInfo
    /\ rpCaptured = <<>>
    /\ rpLast = NoReplace
    /\ apiKey = "k1"
    /\ apiUrl = "k1"
    /\ now = 0
    /\ CacheIdle
    /\ ApiIdle
    /\ DebounceIdle
    /\ LoadIdle
    /\ StartIdle
    /\ MsgIdle
    /\ ClickIdle
    /\ RaceIdle
    /\ DetailIdle
    /\ ScriptIdle
    /\ EditIdle
    /\ LogoIdle
    /\ RekeyIdle

restReplace == <<pageVars, cacheVars, apiVars, dbVars, loadVars, startVars, msgVars, clickVars, raceVars, detailVars, scriptVars, editVars, logoVars, rekeyVars>>

NextReplace ==
    \/ Capture /\ UNCHANGED restReplace
    \/ \E value \in ReplaceValues : ReplaceEdit(value) /\ UNCHANGED restReplace
    \/ \E suggestion \in ReplaceSuggestions : Choose(suggestion) /\ UNCHANGED restReplace

SpecReplace == InitReplace /\ [][NextReplace]_vars

\* the blanks before and after the trimmed text of a value
LeadingBlanks(value) == SubSeq(value, 1, Len(value) - Len(TrimStart(value)))
TrailingBlanks(value) == SubSeq(value, Len(TrimEnd(value)) + 1, Len(value))

\* the captured text is found in no way in the value replaceSentence met
NotLocated ==
    LET value == rpLast.before
        info == rpLast.info
    IN  /\ Substring(value, info.startPos, Min(info.endPos, Len(value))) # info.text
        /\ IndexOf(value, info.text) = -1
        /\ IndexOf(value, rpLast.suggestion) = -1
        /\ ~findFuzzyMatch(value, info.text).found

C23_WitnessNotLocated ==
    /\ rpLast.n > 0
    /\ NotLocated

\* C24: replaceSentence is idempotent for a given suggestion: once the
\* suggestion has been applied, calling replaceSentence again with the same
\* suggestion and the same captured content info leaves the text of the
\* element as it is and returns true.
C24_Idempotent ==
    rpLast.again => (rpLast.result /\ rpLast.after = rpLast.before)

-----------------------------------------------------------------------------
(* grammarCheck.js and content.js: the debounced check of an element that  *)
(* had no key, and the API_KEY_UPDATED message that installs one           *)

MaxRekey == 2

RekeyElements == 1..MaxRekey

RekeyTexts == {TShort, TLongA, TLongB}

NotChecked == [called |-> FALSE, text |-> <<>>]

\* initGrammarCheck of an element: the listeners are installed and the
\* debounced check is called when the element has text
RekeyInit(e) ==
    /\ InitGrammarCheck(e, ~TooShort(rkText[e]))
    /\ UNCHANGED rekeyVars

\* cleanupElementGrammarCheck of an element
RekeyCleanup(e) ==
    /\ CleanupElementGrammarCheck(e)
    /\ UNCHANGED rekeyVars

\* the user types in an element: the input listener of an initialized
\* element calls its debounced check
RekeyInput(e, text) ==
    /\ text # rkText[e]
    /\ rkText' = [rkText EXCEPT ![e] = text]
    /\ msgPending' = IF e \in msgEnabled THEN msgPending \cup {e} ELSE msgPending
    /\ rkSkipped' = rkSkipped \ {e}
    /\ rkAwaiting' = rkAwaiting \ {e}
    /\ UNCHANGED <<rkChecked, pageVars, msgStorageOk, msgEnabled, msgReply>>

\* grammarCheck.js:1100-1131: the timer of the debounced check of an element
\* fires: nothing for a short text, a return without a key, else checkGrammar
RekeyTimer(e) ==
    /\ DebouncedCheckRuns(e)
    /\ IF TooShort(rkText[e])
       THEN UNCHANGED <<rkSkipped, rkChecked>>
       ELSE IF apiKey = ""
       THEN /\ rkSkipped' = rkSkipped \cup {e}
            /\ UNCHANGED rkChecked
       ELSE /\ rkSkipped' = rkSkipped \ {e}
            /\ rkChecked' = [rkChecked EXCEPT ![e] = [called |-> TRUE, text |-> rkText[e]]]
    /\ UNCHANGED <<rkText, rkAwaiting>>

\* the API_KEY_UPDATED message is handled
RekeyMessage(key, activeModel) ==
    /\ OnApiKeyUpdated(key, activeModel)
    /\ rkAwaiting' = rkSkipped \cap msgEnabled
    /\ rkChecked' = [e \in RekeyElements |-> NotChecked]
    /\ UNCHANGED <<rkText, rkSkipped>>

InitRekey ==
    /\ apiKey = ""
    /\ apiUrl = ""
    /\ now = 0
    /\ msgStorageOk \in BOOLEAN
    /\ msgEnabled = {}
    /\ msgPending = {}
    /\ msgReply = NoReply
    /\ rkText \in [RekeyElements -> RekeyTexts]
    /\ rkSkipped = {}
    /\ rkAwaiting = {}
    /\ rkChecked = [e \in RekeyElements |-> NotChecked]
    /\ CacheIdle
    /\ ApiIdle
    /\ DebounceIdle
    /\ LoadIdle
    /\ StartIdle
    /\ ClickIdle
    /\ RaceIdle
    /\ DetailIdle
    /\ ScriptIdle
    /\ EditIdle
    /\ LogoIdle
    /\ ReplaceIdle

restRekey == <<cacheVars, apiVars, dbVars, loadVars, startVars, clickVars, raceVars, detailVars, scriptVars, editVars, logoVars, replaceVars>>

NextRekey ==
    \/ \E e \in RekeyElements : RekeyInit(e) /\ UNCHANGED restRekey
    \/ \E e \in RekeyElements : RekeyCleanup(e) /\ UNCHANGED restRekey
    \/ \E e \in RekeyElements : \E text \in RekeyTexts :
          RekeyInput(e, text) /\ UNCHANGED restRekey
    \/ \E e \in RekeyElements : RekeyTimer(e) /\ UNCHANGED restRekey
    \/ \E key \in {"", "k1"} : \E activeModel \in {"", "gemini"} :
          RekeyMessage(key, activeModel) /\ UNCHANGED restRekey

SpecRekey == InitRekey /\ [][NextRekey]_vars

\* C25: if the debounced check of an initialized element was skipped because
\* there was no key, then once an API_KEY_UPDATED message with a non-empty
\* key has been handled, the timer of the element's debounced check is armed
\* and, when it has fired, checkGrammar has been called with the element's
\* text, without any input of the user.
C25_RecheckAfterKey ==
    (msgReply.sent /\ msgReply.key # "") =>
        \A e \in rkAwaiting :
            \/ e \in msgPending
            \/ rkChecked[e] = [called |-> TRUE, text |-> rkText[e]]

====
